---- MODULE Spec2Model ----
(***************************************************************************)
(* Model of the Graph object of the igraph Python binding                  *)
(* (src/src/graphobject.c): the handle that owns the native igraph_t, its  *)
(* participation in the cyclic garbage collector, the destructor           *)
(* registration and the structural mutators.                               *)
(***************************************************************************)
EXTENDS Integers, Sequences, FiniteSets, TLC

VARIABLES self, engine, py, graph, lastOp, visited, call, attrs

vars == <<self, engine, py, graph, lastOp, visited, call, attrs>>

NULL == "NULL"

\* Attribute names of the graph scope and host values stored under them.
GKeys == {"name", "date"}
GValues == {"x", "y"}

\* The graph-scope attribute dictionary when it is empty (dict: the value
\* under each key, NULL for none), with the reference count of every host
\* value (rc; the host itself holds one reference) and the references
\* handed to the host as results that it has not yet released (held).
NoAttrs == [dict |-> [k \in GKeys |-> NULL], rc |-> [v \in GValues |-> 1],
            held |-> [v \in GValues |-> 0]]

\* Host values that can be handed to __register_destructor__.
Callables == {"cb1", "cb2"}
\* Callables whose closure holds a strong reference to the graph itself.
ClosesOverGraph == {"cb2"}
NonCallables == {"notcallable"}
Missing == "missing"

\* Bounds of the model.
MaxInit == 2
MaxDepth == 2
MaxV == 2
MaxE == 1
MaxRefs == 5

\* Lengths of the host lists handed to a mutator.
ListLens == 0 .. 2

NVals == (0 - 1) .. MaxV

\* A host list element that is not an integer (a string, say) is encoded
\* as this number, outside every range the model uses.
NotInt == MaxV + 1000

\* Attribute names of the vertex and of the edge scope.
VKeys == {"type"}
EKeys == {"weight"}
Absent == 0 - 1

\* Host integers that can occur in a list: vertex and edge ids up to one
\* past the largest valid id, a negative number and a non-integer.
HostIds == 0 .. MaxV
HostElems == HostIds \cup {0 - 1, NotInt}
\* Host pairs: every pair of possible vertex ids, one pair with an endpoint
\* past the largest id, one with a negative and one with a non-integer
\* endpoint.
HostPairs == ((0 .. MaxV - 1) \X (0 .. MaxV - 1))
             \cup {<<0, MaxV>>, <<0 - 1, 0>>, <<NotInt, 0>>}

ListsOf(S) == UNION {[1 .. k -> S] : k \in ListLens}

\* The slots igraphmodule_Graph_traverse can hand to the visit procedure,
\* in the order of the code, and the slots it leaves out.
AttrSlots == <<"attr_graph", "attr_vertex", "attr_edge">>
ViewSlots == {"vseq", "eseq"}

NoGraph == [vcount |-> 0, edges |-> <<>>, directed |-> FALSE,
            vattr |-> [k \in VKeys |-> Absent],
            eattr |-> [k \in EKeys |-> Absent]]

Max(a, b) == IF a >= b THEN a ELSE b

Range(seq) == {seq[i] : i \in 1 .. Len(seq)}

\* ---------------------------------------------------------------------
\* Conversion layer and native engine, as the binding relies on them.

\* igraphmodule_PyList_to_vector_t(list, &v, need_non_negative, pairs) for
\* pairs = 0: the elements in order; fails on a non-integer or, with
\* need_non_negative, on a negative element.
PyList_to_vector_t(list) ==
    IF \E i \in 1 .. Len(list) : list[i] = NotInt \/ list[i] < 0
    THEN [ok |-> FALSE, v |-> <<>>]
    ELSE [ok |-> TRUE, v |-> list]

\* The same for pairs = 1: a list of pairs becomes the flat alternating
\* vector a, b, c, d, ...
PyList_to_vector_t_pairs(list) ==
    IF \E i \in 1 .. Len(list) :
          \E j \in 1 .. 2 : list[i][j] = NotInt \/ list[i][j] < 0
    THEN [ok |-> FALSE, v |-> <<>>]
    ELSE [ok |-> TRUE,
          v |-> [i \in 1 .. 2 * Len(list) |->
                    list[(i + 1) \div 2][IF i % 2 = 1 THEN 1 ELSE 2]]]

\* The edges a flat vector stands for.
PairsOf(v) == [i \in 1 .. Len(v) \div 2 |-> <<v[2 * i - 1], v[2 * i]>>]

MaxOf(v) == IF v = <<>> THEN 0 - 1
            ELSE CHOOSE m \in {v[i] : i \in 1 .. Len(v)} :
                    \A i \in 1 .. Len(v) : v[i] <= m

\* The elements of seq whose index is not in D, in their order.
RECURSIVE KeepFrom(_, _, _)
KeepFrom(seq, i, D) ==
    IF i > Len(seq) THEN <<>>
    ELSE (IF i \in D THEN <<>> ELSE <<seq[i]>>) \o KeepFrom(seq, i + 1, D)

Resized(attr, n) == [k \in DOMAIN attr |-> IF attr[k] = Absent THEN Absent ELSE n]

\* igraph_create(&g, &edges, n, directed).
e_create(v, n, dir) ==
    [vcount |-> Max(n, MaxOf(v) + 1), edges |-> PairsOf(v), directed |-> dir,
     vattr |-> [k \in VKeys |-> Absent], eattr |-> [k \in EKeys |-> Absent]]

\* igraph_empty(&g, n, directed).
e_empty(n, dir) == e_create(<<>>, n, dir)

\* igraph_add_vertices(&g, n, 0): every vertex-scope array grows by n.
e_add_vertices(g, n) ==
    IF n < 0 THEN [ok |-> FALSE, g |-> g]
    ELSE [ok |-> TRUE,
          g |-> [g EXCEPT !.vcount = @ + n,
                          !.vattr = Resized(@, g.vcount + n)]]

\* The new id of surviving vertex u once the vertices of S are gone.
Renumber(u, S) == u - Cardinality({x \in S : x < u})

\* igraph_delete_vertices(&g, igraph_vss_vector(&v)): fails on an id that is
\* not a vertex; otherwise the vertices and their edges go, the survivors
\* are renumbered and the attribute arrays follow.
e_delete_vertices(g, v) ==
    LET S == {v[i] : i \in 1 .. Len(v)}
        D == {i \in 1 .. Len(g.edges) :
                 g.edges[i][1] \in S \/ g.edges[i][2] \in S}
        kept == KeepFrom(g.edges, 1, D)
        es == [i \in 1 .. Len(kept) |->
                  <<Renumber(kept[i][1], S), Renumber(kept[i][2], S)>>]
    IN  IF \E x \in S : x >= g.vcount
        THEN [ok |-> FALSE, g |-> g]
        ELSE [ok |-> TRUE,
              g |-> [g EXCEPT !.vcount = @ - Cardinality(S),
                              !.edges = es,
                              !.vattr = Resized(@, g.vcount - Cardinality(S)),
                              !.eattr = Resized(@, Len(es))]]

\* igraph_add_edges(&g, &v, 0): fails on an endpoint that is not a vertex.
e_add_edges(g, v) ==
    IF \E i \in 1 .. Len(v) : v[i] >= g.vcount
    THEN [ok |-> FALSE, g |-> g]
    ELSE [ok |-> TRUE,
          g |-> [g EXCEPT !.edges = @ \o PairsOf(v),
                          !.eattr = Resized(@, Len(g.edges) + Len(v) \div 2)]]

\* The id (1-based index) of an edge between a and b, 0 when there is none.
EdgeMatches(g, e, a, b) ==
    \/ e = <<a, b>>
    \/ ~g.directed /\ e = <<b, a>>

get_eid(g, a, b) ==
    IF \E i \in 1 .. Len(g.edges) : EdgeMatches(g, g.edges[i], a, b)
    THEN CHOOSE i \in 1 .. Len(g.edges) :
            /\ EdgeMatches(g, g.edges[i], a, b)
            /\ \A j \in 1 .. i - 1 : ~EdgeMatches(g, g.edges[j], a, b)
    ELSE 0

\* igraph_delete_edges(&g, es) for a selector made by igraph_es_vector
\* (ids, 0-based) or igraph_es_pairs (endpoint pairs): fails when a selected
\* edge does not exist, otherwise the edges go and the edge-scope arrays
\* follow.
e_delete_edges(g, by_index, v) ==
    LET ids == IF by_index
               THEN {IF v[i] < Len(g.edges) THEN v[i] + 1 ELSE 0 :
                        i \in 1 .. Len(v)}
               ELSE {get_eid(g, PairsOf(v)[i][1], PairsOf(v)[i][2]) :
                        i \in 1 .. Len(v) \div 2}
        es == KeepFrom(g.edges, 1, ids)
    IN  IF 0 \in ids
        THEN [ok |-> FALSE, g |-> g]
        ELSE [ok |-> TRUE,
              g |-> [g EXCEPT !.edges = es, !.eattr = Resized(@, Len(es))]]

\* ---------------------------------------------------------------------
\* Pure helpers translated from the C functions.

\* igraphmodule_Graph_init_internal: every PyObject* field and g.attr NULL.
Graph_init_internal(s) ==
    [s EXCEPT !.vseq = NULL, !.eseq = NULL, !.destructor = NULL,
              !.weakreflist = FALSE, !.attr = NULL]

\* PyCallable_Check.
PyCallable_Check(x) == x \in Callables

\* The memory tp_alloc returns: zero-filled, tracked by the collector.
AllocatedObject ==
    [alloc |-> "live", tracked |-> TRUE, vseq |-> NULL, eseq |-> NULL,
     destructor |-> NULL, weakreflist |-> FALSE, g |-> 0, attr |-> NULL]

NoObject == [AllocatedObject EXCEPT !.alloc = "none", !.tracked = FALSE]

\* igraphmodule_Graph_clear as it would be without lines 108-110.
Graph_clear_keeps_destructor(s) ==
    [s EXCEPT !.tracked = FALSE, !.vseq = NULL, !.eseq = NULL]

\* igraphmodule_Graph_clear: untrack, then drop vseq, eseq and destructor.
\* The loop over the attribute hashes is commented out in the source.
Graph_clear(s) ==
    [s EXCEPT !.tracked = FALSE, !.vseq = NULL, !.eseq = NULL,
              !.destructor = NULL]

\* igraphmodule_Graph_traverse with the commented-out visit of self->vseq
\* (lines 149-152) switched on.
TraverseAll_with_vseq(s) ==
    (IF s.destructor # NULL THEN <<"destructor">> ELSE <<>>)
    \o (IF s.attr # NULL THEN AttrSlots ELSE <<>>)
    \o (IF s.vseq # NULL THEN <<"vseq">> ELSE <<>>)

\* The sequence of slots igraphmodule_Graph_traverse visits when the visit
\* procedure returns non-zero at its stop-th call (stop = 0: never).
TraverseAll(s) ==
    (IF s.destructor # NULL THEN <<"destructor">> ELSE <<>>)
    \o (IF s.attr # NULL THEN AttrSlots ELSE <<>>)

Graph_traverse(s, stop) ==
    IF stop = 0 \/ stop > Len(TraverseAll(s))
    THEN TraverseAll(s)
    ELSE SubSeq(TraverseAll(s), 1, stop)

\* igraph_destroy(&self->g) as seen from the binding: the structure whose
\* id is stored in self->g is released once more; id 0 is memory in which
\* no native structure was ever created.
igraph_destroy(e, gid) ==
    IF gid = 0 THEN [e EXCEPT !.bogus = @ + 1]
    ELSE [e EXCEPT !.released[gid] = @ + 1]

\* What g.attr holds after the attribute handler's destroy hook ran.
AttrAfterDestroy(a, nulls) == IF a = NULL \/ nulls THEN NULL ELSE "freed"

\* Lines 178-182 of igraphmodule_Graph_dealloc: clear, then PyObject_GC_Del.
\* w is the record [self, engine, py]; steps are the steps this activation
\* has performed so far.
DeallocTail(w, steps) ==
    LET views == w.self.vseq # NULL \/ w.self.eseq # NULL
        st == IF views THEN Append(steps, "views") ELSE steps
    IN  IF w.self.alloc = "live"
        THEN [w EXCEPT !.self = [Graph_clear(w.self) EXCEPT !.alloc = "freed"],
                       !.py.dels = @ + 1,
                       !.py.done = Append(st, "free")]
        ELSE \* the object was already freed by a nested activation
             [w EXCEPT !.py.dels = @ + 1,
                       !.py.uaf = TRUE,
                       !.py.done = Append(steps, "free")]

\* igraphmodule_Graph_dealloc with the destructor called before
\* igraph_destroy.
Graph_dealloc_finalizer_first(w, nulls) ==
    LET s0 == w.self
        st0 == IF s0.weakreflist THEN <<"weakrefs">> ELSE <<>>
        s1 == [s0 EXCEPT !.weakreflist = FALSE]
        e1 == igraph_destroy(w.engine, s1.g)
        s2 == [s1 EXCEPT !.attr = AttrAfterDestroy(@, nulls)]
        w1 == [w EXCEPT !.self = s2, !.engine = e1, !.py.attempts = @ + 1]
    IN  IF PyCallable_Check(s2.destructor)
        THEN [w1 EXCEPT !.py.invoked[s2.destructor] = @ + 1,
                        !.py.frames = Append(@, st0 \o <<"finalizer", "native">>)]
        ELSE DeallocTail(w1, Append(st0, "native"))

\* Lines 165-176 of igraphmodule_Graph_dealloc, up to the call of the
\* destructor; when there is nothing to call the activation runs to its end.
Graph_dealloc(w, nulls) ==
    LET s0 == w.self
        st0 == IF s0.weakreflist THEN <<"weakrefs">> ELSE <<>>
        s1 == [s0 EXCEPT !.weakreflist = FALSE]
        e1 == igraph_destroy(w.engine, s1.g)
        s2 == [s1 EXCEPT !.attr = AttrAfterDestroy(@, nulls)]
        st1 == Append(st0, "native")
        w1 == [w EXCEPT !.self = s2, !.engine = e1, !.py.attempts = @ + 1]
    IN  IF PyCallable_Check(s2.destructor)
        THEN [w1 EXCEPT !.py.invoked[s2.destructor] = @ + 1,
                        !.py.frames = Append(@, Append(st1, "finalizer"))]
        ELSE DeallocTail(w1, st1)

World == [self |-> self, engine |-> engine, py |-> py]

SetWorld(w) ==
    /\ self' = w.self
    /\ engine' = w.engine
    /\ py' = w.py

\* What the last operation was, a classification of its argument, what it
\* returned and whether it called into the native engine.
Op(op, arg, res, eng) == [op |-> op, arg |-> arg, res |-> res, eng |-> eng]

\* One event of a call: the function f applied to the object x, and whether
\* it reported success.
Ev(f, x, ok) == [f |-> f, x |-> x, ok |-> ok]

\* The record of one call of an exposed operation: its name, the shape of
\* its host arguments, the value handed back to the host and the calls it
\* made, in order.
Call(op, arg, run) ==
    [op |-> op, arg |-> arg, ret |-> run.ret, val |-> run.val,
     events |-> run.events]

\* What one run of an operation hands back: the kind of the returned value
\* ("NULL" is the failure indicator), the value and the calls made.
Exit(ret, val, events) == [ret |-> ret, val |-> val, events |-> events]

\* The failure indicator after the calls of events.
Fail(events) == Exit("NULL", <<>>, events)

\* No operation has been called yet.
NoCall == Call("none", <<>>, Exit("none", <<>>, <<>>))

\* Host code can call methods of the handle: it holds a reference and no
\* deallocation is in progress.
HostCanCall == self.alloc = "live" /\ py.ext /\ py.frames = <<>>

\* Host code is not waiting for the result of a recorded call.
HostIdle == HostCanCall /\ call.op = "none"

\* The collector is inside a collection (it does not start a nested one).
InCollection == py.gcPath # "none" /\ py.frames # <<>>

\* ---------------------------------------------------------------------
Init ==
    /\ self = NoObject
    /\ engine = [created |-> 0, released |-> [i \in 1 .. MaxInit |-> 0],
                 bogus |-> 0]
    /\ py = [ext |-> FALSE, frames |-> <<>>, done |-> <<>>,
             invoked |-> [c \in Callables |-> 0], lastReg |-> NULL,
             dropped |-> {},
             attempts |-> 0, dels |-> 0, uaf |-> FALSE, gcPath |-> "none"]
    /\ graph = NoGraph
    /\ lastOp = Op("none", NULL, NULL, FALSE)
    /\ visited = <<>>
    /\ call = NoCall
    /\ attrs = NoAttrs

\* igraphmodule_Graph_new: tp_alloc, then init_internal; NULL when the
\* allocation fails.
Graph_new(ok) ==
    /\ self.alloc = "none"
    /\ IF ok
       THEN /\ self' = Graph_init_internal(AllocatedObject)
            /\ py' = [py EXCEPT !.ext = TRUE]
            /\ lastOp' = Op("new", NULL, "ok", FALSE)
       ELSE /\ self' = [self EXCEPT !.alloc = "nomem"]
            /\ py' = py
            /\ lastOp' = Op("new", NULL, "error", FALSE)
    /\ UNCHANGED <<engine, graph, visited, call, attrs>>

\* Vertex counts handed to the initializer: a negative one and the default.
InitNs == {0 - 1, 1}

\* Edge lists handed to the initializer.
InitLists == {<<>>, <<<<0, 1>>>>, <<<<NotInt, 0>>>>}

\* igraphmodule_Graph_init.  how: "parse" (argument parsing fails),
\* "create" (an edge list is given), "empty" (no edge list).  engineOK: the
\* native constructor does not run out of memory.  n is handed to the
\* native constructor unchecked; the constructor rejects a negative n.
Graph_init(how, n, edges, dir, engineOK) ==
    /\ HostCanCall
    /\ engine.created < MaxInit
    /\ LET conv == PyList_to_vector_t_pairs(edges)
           arg == IF how # "parse" /\ n < 0 THEN "negative" ELSE how
           fail(eng) == /\ lastOp' = Op("init", arg, "error", eng)
                        /\ UNCHANGED <<self, engine, graph>>
           done(g) == /\ engine' = [engine EXCEPT !.created = @ + 1]
                      /\ self' = [self EXCEPT !.g = engine.created + 1,
                                              !.attr = "set"]
                      /\ graph' = g
                      /\ lastOp' = Op("init", how, "ok", TRUE)
       IN  IF how = "parse" THEN fail(FALSE)
           ELSE IF how = "create"
           THEN IF ~conv.ok THEN fail(FALSE)
                ELSE IF n < 0 \/ ~engineOK THEN fail(TRUE)
                ELSE done(e_create(conv.v, n, dir))
           ELSE IF n < 0 \/ ~engineOK THEN fail(TRUE)
                ELSE done(e_empty(n, dir))
    /\ UNCHANGED <<py, visited, call, attrs>>

\* __register_destructor__ as it would be if an existing registration were
\* kept instead of replaced.
register_keep_first(x) ==
    /\ HostCanCall
    /\ IF x = Missing \/ ~PyCallable_Check(x)
       THEN /\ lastOp' = Op("register", x, "error", FALSE)
            /\ UNCHANGED <<self, py>>
       ELSE /\ self' = [self EXCEPT !.destructor = IF @ = NULL THEN x ELSE @]
            /\ py' = [py EXCEPT !.lastReg = x,
                                !.dropped = IF self.destructor \in {NULL, x} THEN @
                                            ELSE @ \cup {self.destructor}]
            /\ lastOp' = Op("register", x,
                            IF self.destructor = NULL THEN "None"
                            ELSE self.destructor, FALSE)
    /\ UNCHANGED <<engine, graph, visited, call, attrs>>

\* __register_destructor__ as it would be without the PyCallable_Check of
\* lines 4353-4356.
register_unchecked(x) ==
    /\ HostCanCall
    /\ IF x = Missing
       THEN /\ lastOp' = Op("register", x, "error", FALSE)
            /\ UNCHANGED <<self, py>>
       ELSE /\ self' = [self EXCEPT !.destructor = x]
            /\ py' = [py EXCEPT !.lastReg = x,
                                !.dropped = IF self.destructor \in {NULL, x} THEN @
                                            ELSE @ \cup {self.destructor}]
            /\ lastOp' = Op("register", x,
                            IF self.destructor = NULL THEN "None"
                            ELSE self.destructor, FALSE)
    /\ UNCHANGED <<engine, graph, visited, call, attrs>>

\* igraphmodule_Graph___register_destructor__.
Graph___register_destructor__(x) ==
    /\ HostCanCall
    /\ IF x = Missing \/ ~PyCallable_Check(x)
       THEN /\ lastOp' = Op("register", x, "error", FALSE)
            /\ UNCHANGED <<self, py>>
       ELSE /\ self' = [self EXCEPT !.destructor = x]
            /\ py' = [py EXCEPT !.lastReg = x,
                                !.dropped = IF self.destructor \in {NULL, x} THEN @
                                            ELSE @ \cup {self.destructor}]
            /\ lastOp' = Op("register", x,
                            IF self.destructor = NULL THEN "None"
                            ELSE self.destructor, FALSE)
    /\ UNCHANGED <<engine, graph, visited, call, attrs>>

\* igraphmodule_Graph_get_vertices as it would be without the test of line
\* 3872: a new view on every access.
Graph_get_vertices_always_new(ok) ==
    /\ HostCanCall
    /\ IF ok
       THEN /\ self' = [self EXCEPT !.vseq = "vs"]
            /\ lastOp' = Op("get_vertices", "new", "vs", FALSE)
       ELSE /\ self' = self
            /\ lastOp' = Op("get_vertices", "new", "nullderef", FALSE)
    /\ UNCHANGED <<engine, py, graph, visited, call, attrs>>

\* igraphmodule_Graph_get_vertices: create the view on first access and
\* hand out the cached one afterwards; the argument of the recorded
\* operation is "new" when igraphmodule_VertexSeq_New was called.  When
\* that call returns NULL (ok = FALSE) the code still increments the
\* reference count of self->vseq.
Graph_get_vertices(ok) ==
    /\ HostCanCall
    /\ IF self.vseq = NULL
       THEN IF ok
            THEN /\ self' = [self EXCEPT !.vseq = "vs"]
                 /\ lastOp' = Op("get_vertices", "new", "vs", FALSE)
            ELSE /\ self' = self
                 /\ lastOp' = Op("get_vertices", "new", "nullderef", FALSE)
       ELSE /\ self' = self
            /\ lastOp' = Op("get_vertices", NULL, self.vseq, FALSE)
    /\ UNCHANGED <<engine, py, graph, visited, call, attrs>>

\* igraphmodule_Graph_get_edges.
Graph_get_edges(ok) ==
    /\ HostCanCall
    /\ IF self.eseq = NULL
       THEN IF ok
            THEN /\ self' = [self EXCEPT !.eseq = "es"]
                 /\ lastOp' = Op("get_edges", "new", "es", FALSE)
            ELSE /\ self' = self
                 /\ lastOp' = Op("get_edges", "new", "nullderef", FALSE)
       ELSE /\ self' = self
            /\ lastOp' = Op("get_edges", NULL, self.eseq, FALSE)
    /\ UNCHANGED <<engine, py, graph, visited, call, attrs>>

\* A weak reference to the handle is taken (tp_weaklistoffset).
MakeWeakRef ==
    /\ HostCanCall
    /\ ~self.weakreflist
    /\ self' = [self EXCEPT !.weakreflist = TRUE]
    /\ lastOp' = Op("weakref", NULL, "ok", FALSE)
    /\ UNCHANGED <<engine, py, graph, visited, call, attrs>>

\* The collector (or gc.get_referents) runs tp_traverse on a tracked handle.
Traverse(stop) ==
    /\ self.alloc = "live"
    /\ self.tracked
    /\ visited' = Graph_traverse(self, stop)
    /\ lastOp' = Op("traverse", NULL, "ok", FALSE)
    /\ UNCHANGED <<self, engine, py, graph, call, attrs>>

\* The host drops its last external reference.  Unless the registered
\* destructor keeps the graph alive, the count reaches zero and tp_dealloc
\* runs.
DropRefs(nulls) ==
    /\ HostCanCall
    /\ lastOp' = Op("drop", NULL, "ok", FALSE)
    /\ IF self.destructor \in ClosesOverGraph
       THEN /\ py' = [py EXCEPT !.ext = FALSE]
            /\ UNCHANGED <<self, engine>>
       ELSE SetWorld(Graph_dealloc([World EXCEPT !.py.ext = FALSE], nulls))
    /\ UNCHANGED <<graph, visited, call, attrs>>

\* The cyclic collector finds the graph/destructor cycle unreachable.  It
\* traverses, then breaks the cycle at one of its members: at the graph
\* (tp_clear; the collector's own reference is dropped in CollectFinish) or
\* at the closure cell of the callback (the count reaches zero with the
\* destructor still registered, tp_dealloc runs at once).
CollectCycle(first, nulls) ==
    /\ self.alloc = "live"
    /\ self.tracked
    /\ ~py.ext
    /\ py.frames = <<>>
    /\ self.destructor \in ClosesOverGraph
    /\ visited' = Graph_traverse(self, 0)
    /\ IF first = "graph"
       THEN /\ self' = Graph_clear(self)
            /\ py' = [py EXCEPT !.gcPath = "graph"]
            /\ engine' = engine
            /\ lastOp' = Op("tp_clear", self.destructor, "ok", FALSE)
       ELSE /\ SetWorld(Graph_dealloc([World EXCEPT !.py.gcPath = "cell"], nulls))
            /\ lastOp' = Op("collect", first, "ok", FALSE)
    /\ UNCHANGED <<graph, call, attrs>>

\* After tp_clear the collector drops its temporary reference: the count
\* reaches zero and tp_dealloc runs.
CollectFinish(nulls) ==
    /\ self.alloc = "live"
    /\ ~py.ext
    /\ py.frames = <<>>
    /\ lastOp.op = "tp_clear"
    /\ SetWorld(Graph_dealloc(World, nulls))
    /\ lastOp' = Op("collect", "graph", "ok", FALSE)
    /\ UNCHANGED <<graph, visited, call, attrs>>

\* While the destructor callback runs, the handle is still tracked: a
\* collection started by the callback finds the handle (reference count
\* zero) unreachable, calls tp_clear and drops its temporary reference,
\* which runs tp_dealloc a second time.
CollectDuringCallback(nulls) ==
    /\ py.frames # <<>>
    /\ Len(py.frames) < MaxDepth
    /\ self.alloc = "live"
    /\ self.tracked
    /\ ~InCollection
    /\ visited' = Graph_traverse(self, 0)
    /\ lastOp' = Op("collect_in_callback", NULL, "ok", FALSE)
    /\ SetWorld(Graph_dealloc([World EXCEPT !.self = Graph_clear(self)], nulls))
    /\ UNCHANGED <<graph, call, attrs>>

\* While the destructor callback runs, it obtains the still tracked handle
\* (gc.get_objects) and drops it again: the count goes 0 -> 1 -> 0 and
\* tp_dealloc runs a second time with the destructor still registered.
ResurrectDuringCallback(nulls) ==
    /\ py.frames # <<>>
    /\ Len(py.frames) < MaxDepth
    /\ self.alloc = "live"
    /\ self.tracked
    /\ lastOp' = Op("resurrect_in_callback", NULL, "ok", FALSE)
    /\ SetWorld(Graph_dealloc(World, nulls))
    /\ UNCHANGED <<graph, visited, call, attrs>>

\* The destructor callback returns; the activation that called it goes on
\* with lines 173-182.
CallbackReturns ==
    /\ py.frames # <<>>
    /\ LET top == py.frames[Len(py.frames)]
           w == [World EXCEPT !.py.frames = SubSeq(@, 1, Len(@) - 1)]
       IN SetWorld(DeallocTail(w, top))
    /\ lastOp' = Op("callback_returns", NULL, "ok", FALSE)
    /\ UNCHANGED <<graph, visited, call, attrs>>

\* ---------------------------------------------------------------------
\* Structural mutators.

\* igraphmodule_Graph_add_vertices.  n = NotInt: argument parsing fails.
Graph_add_vertices(n, engineOK) ==
    /\ HostCanCall
    /\ n \in 0 .. MaxV => graph.vcount + n <= MaxV
    /\ LET r == e_add_vertices(graph, n)
       IN  IF n = NotInt
           THEN /\ lastOp' = Op("add_vertices", "unparsable", "error", FALSE)
                /\ graph' = graph
           ELSE IF n < 0
           THEN /\ lastOp' = Op("add_vertices", "negative", "error", FALSE)
                /\ graph' = graph
           ELSE IF ~engineOK \/ ~r.ok
           THEN /\ lastOp' = Op("add_vertices", "valid", "error", TRUE)
                /\ graph' = graph
           ELSE /\ lastOp' = Op("add_vertices", "valid", "self", TRUE)
                /\ graph' = r.g
    /\ UNCHANGED <<self, engine, py, visited, call, attrs>>

\* igraphmodule_Graph_delete_vertices as it would be with one native call
\* per listed vertex instead of one call for the whole selector.
RECURSIVE DeleteOneByOne(_, _)
DeleteOneByOne(g, v) ==
    IF v = <<>> THEN [ok |-> TRUE, g |-> g]
    ELSE LET r == e_delete_vertices(g, <<Head(v)>>)
         IN  IF r.ok THEN DeleteOneByOne(r.g, Tail(v)) ELSE r

delete_vertices_call_loop(g, v) == DeleteOneByOne(g, v)

\* The native call of igraphmodule_Graph_delete_vertices (line 353).
delete_vertices_call(g, v) == e_delete_vertices(g, v)

\* igraphmodule_Graph_delete_vertices.
Graph_delete_vertices(list, engineOK) ==
    /\ HostCanCall
    /\ LET conv == PyList_to_vector_t(list)
           r == delete_vertices_call(graph, conv.v)
       IN  IF ~conv.ok
           THEN /\ lastOp' = Op("delete_vertices", "unconvertible", "error", FALSE)
                /\ graph' = graph
           ELSE IF ~engineOK
           THEN /\ lastOp' = Op("delete_vertices", "nomem", "error", TRUE)
                /\ graph' = graph
           ELSE IF ~r.ok
           THEN /\ lastOp' = Op("delete_vertices", "invalid", "error", TRUE)
                /\ graph' = r.g
           ELSE /\ lastOp' = Op("delete_vertices", "valid", "self", TRUE)
                /\ graph' = r.g
    /\ UNCHANGED <<self, engine, py, visited, call, attrs>>

\* igraphmodule_Graph_add_edges.
Graph_add_edges(list, engineOK) ==
    /\ HostCanCall
    /\ Len(graph.edges) + Len(list) <= MaxE
    /\ LET conv == PyList_to_vector_t_pairs(list)
           r == e_add_edges(graph, conv.v)
       IN  IF ~conv.ok
           THEN /\ lastOp' = Op("add_edges", "unconvertible", "error", FALSE)
                /\ graph' = graph
           ELSE IF ~engineOK
           THEN /\ lastOp' = Op("add_edges", "nomem", "error", TRUE)
                /\ graph' = graph
           ELSE IF ~r.ok
           THEN /\ lastOp' = Op("add_edges", "invalid", "error", TRUE)
                /\ graph' = r.g
           ELSE /\ lastOp' = Op("add_edges", "valid", "self", TRUE)
                /\ graph' = r.g
    /\ UNCHANGED <<self, engine, py, visited, call, attrs>>

NativeOutcomes == {"ok", "sel_nomem", "del_nomem"}

\* igraphmodule_Graph_delete_edges.  by_index: list holds edge ids,
\* otherwise endpoint pairs.  native: "sel_nomem" when igraph_es_vector /
\* igraph_es_pairs fails, "del_nomem" when igraph_delete_edges runs out of
\* memory, "ok" otherwise.
Graph_delete_edges(list, by_index, native) ==
    /\ HostCanCall
    /\ LET conv == IF by_index THEN PyList_to_vector_t(list)
                   ELSE PyList_to_vector_t_pairs(list)
           r == e_delete_edges(graph, by_index, conv.v)
       IN  IF ~conv.ok
           THEN /\ lastOp' = Op("delete_edges", "unconvertible", "error", FALSE)
                /\ graph' = graph
           ELSE IF native # "ok"
           THEN /\ lastOp' = Op("delete_edges", native, "error", TRUE)
                /\ graph' = graph
           ELSE IF ~r.ok
           THEN /\ lastOp' = Op("delete_edges", "invalid", "error", TRUE)
                /\ graph' = r.g
           ELSE /\ lastOp' = Op("delete_edges", "valid", "self", TRUE)
                /\ graph' = r.g
    /\ UNCHANGED <<self, engine, py, visited, call, attrs>>

\* A vertex-scope attribute is assigned through the vertex sequence: one
\* value per vertex.
SetVertexAttr(k) ==
    /\ HostCanCall
    /\ graph.vattr[k] = Absent
    /\ graph' = [graph EXCEPT !.vattr[k] = graph.vcount]
    /\ lastOp' = Op("set_vertex_attr", k, "ok", FALSE)
    /\ UNCHANGED <<self, engine, py, visited, call, attrs>>

\* An edge-scope attribute is assigned through the edge sequence.
SetEdgeAttr(k) ==
    /\ HostCanCall
    /\ graph.eattr[k] = Absent
    /\ graph' = [graph EXCEPT !.eattr[k] = Len(graph.edges)]
    /\ lastOp' = Op("set_edge_attr", k, "ok", FALSE)
    /\ UNCHANGED <<self, engine, py, visited, call, attrs>>

\* ---------------------------------------------------------------------
\* Generators.

\* The steps of each operation that can fail for a reason outside its
\* arguments (no memory, say); "mutating" are the ones tried while a graph
\* is being mutated: one before the engine, the engine, one after it.
FailureSteps ==
    [Preference |-> {"parse", "pm", "shape", "td", "alloc", "type_vec",
                     "game", "list", "setitem"},
     Asymmetric_Preference |-> {"parse", "pm", "shape", "td", "alloc",
                                "in_type_vec", "out_type_vec", "game", "list",
                                "setitem"},
     mutating |-> {"alloc", "game", "setitem"},
     degree |-> {"parse", "vs", "result", "degree"},
     query |-> {"parse", "vs", "res", "native"},
     constraint |-> {"parse", "result", "weights", "vs", "native"},
     operator |-> {"ptr", "native", "alloc"},
     generator |-> {"parse", "alloc", "native"},
     plain |-> {"parse", "native"},
     mincut |-> {"parse", "capacity", "native"},
     file |-> {"parse", "open", "native", "alloc"},
     copy |-> {"native", "alloc"},
     dimacs |-> {"parse", "open", "capacity", "native", "list", "alloc"},
     bfs |-> {"parse", "native", "vids", "layers", "parents"}]

\* The file readers and writers with the native function each one calls.
FileReaders ==
    [Read_DIMACS |-> "igraph_read_graph_dimacs",
     Read_Edgelist |-> "igraph_read_graph_edgelist",
     Read_Ncol |-> "igraph_read_graph_ncol",
     Read_Lgl |-> "igraph_read_graph_lgl",
     Read_Pajek |-> "igraph_read_graph_pajek",
     Read_GraphML |-> "igraph_read_graph_graphml"]
FileWriters ==
    [write_dimacs |-> "igraph_write_graph_dimacs",
     write_edgelist |-> "igraph_write_graph_edgelist",
     write_ncol |-> "igraph_write_graph_ncol",
     write_lgl |-> "igraph_write_graph_lgl",
     write_graphml |-> "igraph_write_graph_graphml"]

\* Names of the calls a run records.
ParseArgs == "PyArg_ParseTupleAndKeywords"
SetString == "PyErr_SetString"
Bridge == "igraphmodule_handle_igraph_error"

\* Calls into the host interpreter and the conversion layer, which set the
\* host error indicator when they fail.
HostCalls == {ParseArgs, "PyArg_ParseTuple", "tp_alloc", "PyObject_GetIter", "PyDict_SetItem",
              "igraphmodule_PyList_to_vector_t",
              "igraphmodule_PyList_to_matrix_t",
              "igraphmodule_PyObject_to_vs_t",
              "igraphmodule_PyObject_to_attribute_values",
              "igraphmodule_PyIter_to_vector_ptr_t",
              "igraphmodule_vector_t_to_PyList",
              "igraphmodule_vector_t_pair_to_PyList"}

\* Initializers and destructors of the transient native buffers.
BufferInits == {"igraph_vector_init", "igraph_matrix_init",
                "igraph_vector_ptr_init",
                "igraphmodule_PyList_to_vector_t",
                "igraphmodule_PyList_to_matrix_t",
                "igraphmodule_PyObject_to_vs_t",
                "igraphmodule_PyObject_to_attribute_values",
                "igraphmodule_PyIter_to_vector_ptr_t"}
BufferDestroys == {"igraph_vector_destroy", "igraph_matrix_destroy",
                   "igraph_vs_destroy", "igraph_vector_ptr_destroy"}

\* Calls of algorithms and constructors of the native engine.
EngineCalls == {"igraph_preference_game", "igraph_asymmetric_preference_game",
                "igraph_barabasi_game", "igraph_nonlinear_barabasi_game",
                "igraph_recent_degree_game",
                "igraph_mincut_value", "igraph_st_mincut_value",
                "igraph_subcomponent", "igraph_copy",
                "igraph_atlas", "igraph_lattice", "igraph_create",
                "igraph_empty", "igraph_are_connected", "igraph_bfs",
                "igraph_isoclass", "igraph_isoclass_subgraph",
                "igraph_degree", "igraph_betweenness", "igraph_bibcoupling",
                "igraph_shortest_paths", "igraph_constraint",
                "igraph_disjoint_union", "igraph_disjoint_union_many",
                "igraph_union", "igraph_union_many",
                "igraph_intersection", "igraph_intersection_many",
                "igraph_difference", "igraph_compose"}
               \cup {FileReaders[o] : o \in DOMAIN FileReaders}
               \cup {FileWriters[o] : o \in DOMAIN FileWriters}

\* Every call into the native library.
NativeCalls == EngineCalls \cup BufferDestroys
               \cup {"igraph_vector_init", "igraph_matrix_init",
                     "igraph_vector_ptr_init"}

\* Edges a random generator of the engine may draw on n vertices: none, or
\* one from the first vertex to the last.
GameEdges(n) == IF n > 0 THEN {<<>>, << <<0, n - 1>> >>} ELSE {<<>>}

\* igraph_preference_game(&g, n, types, &td, &pm, node_type_vec, directed,
\* loops): a graph on n vertices; the type vector, when asked for, gets one
\* entry per vertex.
e_preference_game(n, es, dir) ==
    [g |-> [vcount |-> n, edges |-> es, directed |-> dir,
            vattr |-> [k \in VKeys |-> Absent],
            eattr |-> [k \in EKeys |-> Absent]],
     node_type_vec |-> [i \in 1 .. n |-> 0]]

\* igraphmodule_vector_t_to_PyList: one list element per vector entry.
vector_t_to_PyList(v) == [i \in 1 .. Len(v) |-> v[i]]

\* igraphmodule_Graph_Preference as it would be if the stored list had one
\* entry per type instead of one per vertex.
Preference_attr_per_type(game, key) ==
    [game.g EXCEPT !.vattr[key] = 1]

\* Lines 1346-1362 of igraphmodule_Graph_Preference: the type vector,
\* converted to a host list, is stored in the vertex attribute dictionary
\* under attribute_key.
Preference_attr(game, key) ==
    [game.g EXCEPT !.vattr[key] = Len(vector_t_to_PyList(game.node_type_vec))]

\* igraphmodule_Graph_Preference(n, type_dist, pref_matrix, attribute,
\* directed, loops).  key is attribute (NULL for None), es the edges the
\* engine draws, F the steps that fail when they are reached.
Graph_Preference(n, key, es, dir, F) ==
    LET store_attribs == key # NULL
        game == e_preference_game(n, es, dir)
        cleanup == <<Ev("igraph_matrix_destroy", "pm", TRUE),
                     Ev("igraph_vector_destroy", "td", TRUE)>>
        E1 == <<Ev(ParseArgs, "args", TRUE)>>
        E2 == E1 \o <<Ev("igraphmodule_PyList_to_matrix_t", "pm", TRUE)>>
        E3 == E2 \o <<Ev("igraphmodule_PyList_to_vector_t", "td", TRUE)>>
        E4 == E3 \o <<Ev("tp_alloc", "self", TRUE)>>
        E5 == E4 \o (IF store_attribs
                     THEN <<Ev("igraph_vector_init", "type_vec", TRUE)>>
                     ELSE <<>>)
        E6 == E5 \o <<Ev("igraph_preference_game", "self", TRUE)>>
        E7 == E6 \o <<Ev("igraphmodule_vector_t_to_PyList", "type_vec_o", TRUE)>>
    IN  IF "parse" \in F
        THEN Fail(<<Ev(ParseArgs, "args", FALSE)>>)
        ELSE IF n <= 0
        THEN Fail(E1 \o <<Ev(SetString, "ValueError", TRUE)>>)
        ELSE IF "pm" \in F
        THEN Fail(E1 \o <<Ev("igraphmodule_PyList_to_matrix_t", "pm", FALSE),
                          Ev(SetString, "TypeError", TRUE)>>)
        ELSE IF "shape" \in F
        THEN Fail(E2 \o <<Ev(SetString, "ValueError", TRUE),
                          Ev("igraph_matrix_destroy", "pm", TRUE)>>)
        ELSE IF "td" \in F
        THEN Fail(E2 \o <<Ev("igraphmodule_PyList_to_vector_t", "td", FALSE),
                          Ev(SetString, "ValueError", TRUE),
                          Ev("igraph_matrix_destroy", "pm", TRUE)>>)
        ELSE IF "alloc" \in F
        THEN Fail(E3 \o <<Ev("tp_alloc", "self", FALSE)>> \o cleanup)
        ELSE IF store_attribs /\ "type_vec" \in F
        THEN Fail(E4 \o <<Ev("igraph_vector_init", "type_vec", FALSE)>>
                     \o cleanup \o <<Ev(Bridge, "error", TRUE)>>)
        ELSE IF "game" \in F
        THEN Fail(E5 \o <<Ev("igraph_preference_game", "self", FALSE),
                          Ev(Bridge, "error", TRUE)>> \o cleanup
                     \o (IF store_attribs
                         THEN <<Ev("igraph_vector_destroy", "type_vec", TRUE)>>
                         ELSE <<>>))
        ELSE IF ~store_attribs
        THEN Exit("graph", game.g, E6 \o cleanup)
        ELSE IF "list" \in F
        THEN Fail(E6 \o <<Ev("igraphmodule_vector_t_to_PyList", "type_vec_o",
                             FALSE)>>
                     \o cleanup
                     \o <<Ev("igraph_vector_destroy", "type_vec", TRUE),
                          Ev("Py_DECREF", "self", TRUE)>>)
        ELSE IF "setitem" \in F
        THEN Fail(E7 \o <<Ev("PyDict_SetItem", "attr_vertex", FALSE),
                          Ev("Py_DECREF", "type_vec_o", TRUE)>>
                     \o cleanup
                     \o <<Ev("igraph_vector_destroy", "type_vec", TRUE),
                          Ev("Py_DECREF", "self", TRUE)>>)
        ELSE Exit("graph", Preference_attr(game, key),
                  E7 \o <<Ev("PyDict_SetItem", "attr_vertex", TRUE),
                          Ev("Py_DECREF", "type_vec_o", TRUE),
                          Ev("igraph_vector_destroy", "type_vec", TRUE)>>
                     \o cleanup)

\* igraph_asymmetric_preference_game(&g, n, types, &td, &pm, in_types,
\* out_types, loops): a directed graph on n vertices; each type vector,
\* when asked for, gets one entry per vertex.
e_asymmetric_preference_game(n, es) ==
    [g |-> [vcount |-> n, edges |-> es, directed |-> TRUE,
            vattr |-> [k \in VKeys |-> Absent],
            eattr |-> [k \in EKeys |-> Absent]],
     in_types |-> [i \in 1 .. n |-> 0],
     out_types |-> [i \in 1 .. n |-> 0]]

\* igraphmodule_vector_t_pair_to_PyList: one pair per entry of the first
\* vector.
vector_t_pair_to_PyList(a, b) == [i \in 1 .. Len(a) |-> <<a[i], b[i]>>]

\* igraphmodule_Graph_Asymmetric_Preference(n, type_dist_matrix,
\* pref_matrix, attribute, loops).
Graph_Asymmetric_Preference(n, key, es, F) ==
    LET store_attribs == key # NULL
        game == e_asymmetric_preference_game(n, es)
        type_vec_o == vector_t_pair_to_PyList(game.in_types, game.out_types)
        pm_td == <<Ev("igraph_matrix_destroy", "pm", TRUE),
                   Ev("igraph_matrix_destroy", "td", TRUE)>>
        in_out == <<Ev("igraph_vector_destroy", "in_type_vec", TRUE),
                    Ev("igraph_vector_destroy", "out_type_vec", TRUE)>>
        late == <<Ev("igraph_matrix_destroy", "pm", TRUE),
                  Ev("igraph_vector_destroy", "td", TRUE)>> \o in_out
                   \o <<Ev("Py_DECREF", "self", TRUE)>>
        E1 == <<Ev(ParseArgs, "args", TRUE)>>
        E2 == E1 \o <<Ev("igraphmodule_PyList_to_matrix_t", "pm", TRUE)>>
        E3 == E2 \o <<Ev("igraphmodule_PyList_to_matrix_t", "td", TRUE)>>
        E4 == E3 \o <<Ev("tp_alloc", "self", TRUE)>>
        E5 == E4 \o (IF store_attribs
                     THEN <<Ev("igraph_vector_init", "in_type_vec", TRUE),
                            Ev("igraph_vector_init", "out_type_vec", TRUE)>>
                     ELSE <<>>)
        E6 == E5 \o <<Ev("igraph_asymmetric_preference_game", "self", TRUE)>>
        E7 == E6 \o <<Ev("igraphmodule_vector_t_pair_to_PyList", "type_vec_o",
                         TRUE)>>
    IN  IF "parse" \in F
        THEN Fail(<<Ev(ParseArgs, "args", FALSE)>>)
        ELSE IF n <= 0
        THEN Fail(E1 \o <<Ev(SetString, "ValueError", TRUE)>>)
        ELSE IF "pm" \in F
        THEN Fail(E1 \o <<Ev("igraphmodule_PyList_to_matrix_t", "pm", FALSE),
                          Ev(SetString, "TypeError", TRUE)>>)
        ELSE IF "shape" \in F
        THEN Fail(E2 \o <<Ev(SetString, "ValueError", TRUE),
                          Ev("igraph_matrix_destroy", "pm", TRUE)>>)
        ELSE IF "td" \in F
        THEN Fail(E2 \o <<Ev("igraphmodule_PyList_to_matrix_t", "td", FALSE),
                          Ev(SetString, "ValueError", TRUE),
                          Ev("igraph_matrix_destroy", "pm", TRUE)>>)
        ELSE IF "alloc" \in F
        THEN Fail(E3 \o <<Ev("tp_alloc", "self", FALSE)>> \o pm_td)
        ELSE IF store_attribs /\ "in_type_vec" \in F
        THEN Fail(E4 \o <<Ev("igraph_vector_init", "in_type_vec", FALSE)>>
                     \o pm_td \o <<Ev(Bridge, "error", TRUE)>>)
        ELSE IF store_attribs /\ "out_type_vec" \in F
        THEN Fail(E4 \o <<Ev("igraph_vector_init", "in_type_vec", TRUE),
                          Ev("igraph_vector_init", "out_type_vec", FALSE)>>
                     \o pm_td
                     \o <<Ev("igraph_vector_destroy", "in_type_vec", TRUE),
                          Ev(Bridge, "error", TRUE)>>)
        ELSE IF "game" \in F
        THEN Fail(E5 \o <<Ev("igraph_asymmetric_preference_game", "self",
                             FALSE),
                          Ev(Bridge, "error", TRUE)>> \o in_out \o pm_td)
        ELSE IF ~store_attribs
        THEN Exit("graph", game.g, E6 \o pm_td)
        ELSE IF "list" \in F
        THEN Fail(E6 \o <<Ev("igraphmodule_vector_t_pair_to_PyList",
                             "type_vec_o", FALSE)>> \o late)
        ELSE IF "setitem" \in F
        THEN Fail(E7 \o <<Ev("PyDict_SetItem", "attr_vertex", FALSE),
                          Ev("Py_DECREF", "type_vec_o", TRUE)>> \o late)
        ELSE Exit("graph", [game.g EXCEPT !.vattr[key] = Len(type_vec_o)],
                  E7 \o <<Ev("PyDict_SetItem", "attr_vertex", TRUE),
                          Ev("Py_DECREF", "type_vec_o", TRUE)>>
                     \o in_out \o pm_td)

\* The failures of one run: none, or one step that fails when reached.
OneFailure(Steps) == {{}} \cup {{st} : st \in Steps}

\* The host calls Graph.Preference(n, ..., attribute=key) and goes on with
\* the graph it gets; on an error it keeps the graph it has.
Generate_Preference(n, key, es, dir, F) ==
    /\ HostCanCall
    /\ LET run == Graph_Preference(n, key, es, dir, F)
       IN  IF run.ret = "NULL"
           THEN /\ lastOp' = Op("Preference", key, "error", "game" \in F)
                /\ graph' = graph
           ELSE /\ lastOp' = Op("Preference", key, "graph", TRUE)
                /\ graph' = run.val
    /\ UNCHANGED <<self, engine, py, visited, call, attrs>>

\* The same with Graph.Asymmetric_Preference.
Generate_Asymmetric_Preference(n, key, es, F) ==
    /\ HostCanCall
    /\ LET run == Graph_Asymmetric_Preference(n, key, es, F)
       IN  IF run.ret = "NULL"
           THEN /\ lastOp' = Op("Asymmetric_Preference", key, "error",
                                "game" \in F)
                /\ graph' = graph
           ELSE /\ lastOp' = Op("Asymmetric_Preference", key, "graph", TRUE)
                /\ graph' = run.val
    /\ UNCHANGED <<self, engine, py, visited, call, attrs>>

\* ---------------------------------------------------------------------
\* Read queries with a vertex selector.

\* Host values handed over as a vertex selector: None, one index or a list
\* of indices.
SelInt(i) == [kind |-> "int", v |-> <<i>>]
SelList(l) == [kind |-> "list", v |-> l]
Selectors ==
    {[kind |-> "None", v |-> <<>>]}
    \cup {SelInt(i) : i \in HostIds \cup {0 - 1}}
    \cup {SelList(l) : l \in ListsOf(HostElems)}

\* igraphmodule_PyObject_to_vs_t(o, &vs, &return_single): None selects all
\* vertices, an integer one vertex (return_single is set), a list the
\* listed vertices; a list with a non-integer element is refused.
PyObject_to_vs_t(o) ==
    IF o.kind = "list" /\ \E i \in 1 .. Len(o.v) : o.v[i] = NotInt
    THEN [ok |-> FALSE, all |-> FALSE, ids |-> <<>>, return_single |-> FALSE]
    ELSE [ok |-> TRUE, all |-> o.kind = "None", ids |-> o.v,
          return_single |-> o.kind = "int"]

\* The vertex ids a selector stands for in graph g, in order.
VsIds(g, vs) == IF vs.all THEN [i \in 1 .. g.vcount |-> i - 1] ELSE vs.ids

\* The engine refuses a selector with an id that is not a vertex.
VsValid(g, vs) ==
    \A i \in 1 .. Len(VsIds(g, vs)) : VsIds(g, vs)[i] \in 0 .. g.vcount - 1

Modes == {"ALL", "OUT", "IN"}
BadMode == "none of ALL, OUT, IN"

\* The degree of vertex v: a loop edge counts on both of its ends; the
\* direction matters in directed graphs only.
DegreeOf(g, v, mode, loops) ==
    LET counted == {i \in 1 .. Len(g.edges) :
                       loops \/ g.edges[i][1] # g.edges[i][2]}
        out == Cardinality({i \in counted : g.edges[i][1] = v})
        in == Cardinality({i \in counted : g.edges[i][2] = v})
    IN  IF ~g.directed \/ mode = "ALL" THEN out + in
        ELSE IF mode = "OUT" THEN out ELSE in

\* igraph_degree(&g, &res, vs, mode, loops): one entry per selected vertex.
e_degree(g, vs, mode, loops) ==
    [ok |-> VsValid(g, vs),
     res |-> [i \in 1 .. Len(VsIds(g, vs)) |->
                 DegreeOf(g, VsIds(g, vs)[i], mode, loops)]]

\* The end of igraphmodule_Graph_degree as it would be if the result were
\* always converted to a list.
degree_result_always_list(return_single, result) ==
    Exit("list", vector_t_to_PyList(result), <<>>)

\* Lines 518-521 of igraphmodule_Graph_degree: the whole vector as a list,
\* or its first entry as an integer when return_single is set.
degree_result(return_single, result) ==
    IF ~return_single THEN Exit("list", vector_t_to_PyList(result), <<>>)
    ELSE Exit("scalar", result[1], <<>>)

\* igraphmodule_Graph_degree(vertices, type, loops).
Graph_degree(g, list, dtype, loops, F) ==
    LET vs == PyObject_to_vs_t(list)
        r == e_degree(g, vs, dtype, loops)
        out == degree_result(vs.return_single, r.res)
        E1 == <<Ev(ParseArgs, "args", TRUE)>>
        E2 == E1 \o <<Ev("igraphmodule_PyObject_to_vs_t", "vs", TRUE)>>
        E3 == E2 \o <<Ev("igraph_vector_init", "result", TRUE)>>
    IN  IF "parse" \in F
        THEN Fail(<<Ev(ParseArgs, "args", FALSE)>>)
        ELSE IF dtype \notin Modes
        THEN Fail(E1 \o <<Ev(SetString, "ValueError", TRUE)>>)
        ELSE IF ~vs.ok \/ "vs" \in F
        THEN Fail(E1 \o <<Ev("igraphmodule_PyObject_to_vs_t", "vs", FALSE),
                          Ev(Bridge, "error", TRUE)>>)
        ELSE IF "result" \in F
        THEN Fail(E2 \o <<Ev("igraph_vector_init", "result", FALSE),
                          Ev("igraph_vs_destroy", "vs", TRUE)>>)
        ELSE IF ~r.ok \/ "degree" \in F
        THEN Fail(E3 \o <<Ev("igraph_degree", "self", FALSE),
                          Ev(Bridge, "error", TRUE),
                          Ev("igraph_vs_destroy", "vs", TRUE),
                          Ev("igraph_vector_destroy", "result", TRUE)>>)
        ELSE Exit(out.ret, out.val,
                  E3 \o <<Ev("igraph_degree", "self", TRUE),
                          Ev("igraph_vector_destroy", "result", TRUE),
                          Ev("igraph_vs_destroy", "vs", TRUE)>>)

\* A per-vertex measure of the engine (betweenness, constraint, ...): one
\* entry per selected vertex; the entry of vertex v is written v.
e_vertex_measure(g, vs) == [ok |-> VsValid(g, vs), res |-> VsIds(g, vs)]

\* A per-vertex row of the engine (bibcoupling, shortest_paths): one row
\* per selected vertex with one column per vertex of the graph; the entry
\* of row v and column w is written <<v, w>>.
e_vertex_rows(g, vs) ==
    [ok |-> VsValid(g, vs),
     res |-> [i \in 1 .. Len(VsIds(g, vs)) |->
                 [j \in 1 .. g.vcount |-> <<VsIds(g, vs)[i], j - 1>>]]]

\* igraphmodule_matrix_t_to_PyList: a list with one list per row.
matrix_t_to_PyList(m) == [i \in 1 .. Len(m) |-> m[i]]

\* igraphmodule_Graph_betweenness(vertices, directed).
Graph_betweenness(g, vobj, F) ==
    LET vs == PyObject_to_vs_t(vobj)
        r == e_vertex_measure(g, vs)
        E1 == <<Ev(ParseArgs, "args", TRUE)>>
        E2 == E1 \o <<Ev("igraphmodule_PyObject_to_vs_t", "vs", TRUE)>>
        E3 == E2 \o <<Ev("igraph_vector_init", "res", TRUE)>>
        E4 == E3 \o <<Ev("igraph_betweenness", "self", TRUE),
                      Ev("igraph_vector_destroy", "res", TRUE),
                      Ev("igraph_vs_destroy", "vs", TRUE)>>
    IN  IF "parse" \in F
        THEN Fail(<<Ev(ParseArgs, "args", FALSE)>>)
        ELSE IF ~vs.ok \/ "vs" \in F
        THEN Fail(E1 \o <<Ev("igraphmodule_PyObject_to_vs_t", "vs", FALSE),
                          Ev(Bridge, "error", TRUE)>>)
        ELSE IF "res" \in F
        THEN Fail(E2 \o <<Ev("igraph_vector_init", "res", FALSE),
                          Ev("igraph_vs_destroy", "vs", TRUE),
                          Ev(Bridge, "error", TRUE)>>)
        ELSE IF ~r.ok \/ "native" \in F
        THEN Fail(E3 \o <<Ev("igraph_betweenness", "self", FALSE),
                          Ev("igraph_vs_destroy", "vs", TRUE),
                          Ev(Bridge, "error", TRUE)>>)
        ELSE IF ~vs.return_single
        THEN Exit("list", vector_t_to_PyList(r.res), E4)
        ELSE Exit("scalar", r.res[1], E4)

\* igraphmodule_Graph_bibcoupling(vertices).
Graph_bibcoupling(g, vobj, F) ==
    LET vs == PyObject_to_vs_t(vobj)
        r == e_vertex_rows(g, vs)
        E1 == <<Ev(ParseArgs, "args", TRUE)>>
        E2 == E1 \o <<Ev("igraphmodule_PyObject_to_vs_t", "vs", TRUE)>>
        E3 == E2 \o <<Ev("igraph_matrix_init", "res", TRUE)>>
    IN  IF "parse" \in F
        THEN Fail(<<Ev(ParseArgs, "args", FALSE)>>)
        ELSE IF ~vs.ok \/ "vs" \in F
        THEN Fail(E1 \o <<Ev("igraphmodule_PyObject_to_vs_t", "vs", FALSE),
                          Ev(Bridge, "error", TRUE)>>)
        ELSE IF "res" \in F
        THEN Fail(E2 \o <<Ev("igraph_matrix_init", "res", FALSE),
                          Ev("igraph_vs_destroy", "vs", TRUE),
                          Ev(Bridge, "error", TRUE)>>)
        ELSE IF ~r.ok \/ "native" \in F
        THEN Fail(E3 \o <<Ev("igraph_bibcoupling", "self", FALSE),
                          Ev("igraph_vs_destroy", "vs", TRUE),
                          Ev(Bridge, "error", TRUE)>>)
        ELSE Exit("list", matrix_t_to_PyList(r.res),
                  E3 \o <<Ev("igraph_bibcoupling", "self", TRUE),
                          Ev("igraph_matrix_destroy", "res", TRUE),
                          Ev("igraph_vs_destroy", "vs", TRUE)>>)

\* igraphmodule_Graph_shortest_paths(vertices, mode).
Graph_shortest_paths(g, vobj, mode, F) ==
    LET vs == PyObject_to_vs_t(vobj)
        r == e_vertex_rows(g, vs)
        E1 == <<Ev(ParseArgs, "args", TRUE)>>
        E2 == E1 \o <<Ev("igraphmodule_PyObject_to_vs_t", "vs", TRUE)>>
        E3 == E2 \o <<Ev("igraph_matrix_init", "res", TRUE)>>
    IN  IF "parse" \in F
        THEN Fail(<<Ev(ParseArgs, "args", FALSE)>>)
        ELSE IF mode \notin Modes
        THEN Fail(E1 \o <<Ev(SetString, "ValueError", TRUE)>>)
        ELSE IF ~vs.ok \/ "vs" \in F
        THEN Fail(E1 \o <<Ev("igraphmodule_PyObject_to_vs_t", "vs", FALSE),
                          Ev(Bridge, "error", TRUE)>>)
        ELSE IF "res" \in F
        THEN Fail(E2 \o <<Ev("igraph_matrix_init", "res", FALSE),
                          Ev("igraph_vs_destroy", "vs", TRUE),
                          Ev(Bridge, "error", TRUE)>>)
        ELSE IF ~r.ok \/ "native" \in F
        THEN Fail(E3 \o <<Ev("igraph_shortest_paths", "self", FALSE),
                          Ev("igraph_matrix_destroy", "res", TRUE),
                          Ev("igraph_vs_destroy", "vs", TRUE),
                          Ev(Bridge, "error", TRUE)>>)
        ELSE Exit("list", matrix_t_to_PyList(r.res),
                  E3 \o <<Ev("igraph_shortest_paths", "self", TRUE),
                          Ev("igraph_matrix_destroy", "res", TRUE),
                          Ev("igraph_vs_destroy", "vs", TRUE)>>)

\* igraphmodule_Graph_constraint(vertices, weights).
Graph_constraint(g, vids_obj, F) ==
    LET vids == PyObject_to_vs_t(vids_obj)
        r == e_vertex_measure(g, vids)
        E1 == <<Ev(ParseArgs, "args", TRUE)>>
        E2 == E1 \o <<Ev("igraph_vector_init", "result", TRUE)>>
        E3 == E2 \o <<Ev("igraphmodule_PyObject_to_attribute_values",
                         "weights", TRUE)>>
        E4 == E3 \o <<Ev("igraphmodule_PyObject_to_vs_t", "vids", TRUE)>>
        result_weights == <<Ev("igraph_vector_destroy", "result", TRUE),
                            Ev("igraph_vector_destroy", "weights", TRUE)>>
    IN  IF "parse" \in F
        THEN Fail(<<Ev(ParseArgs, "args", FALSE)>>)
        ELSE IF "result" \in F
        THEN Fail(E1 \o <<Ev("igraph_vector_init", "result", FALSE),
                          Ev(Bridge, "error", TRUE)>>)
        ELSE IF "weights" \in F
        THEN Fail(E2 \o <<Ev("igraphmodule_PyObject_to_attribute_values",
                             "weights", FALSE),
                          Ev("igraph_vector_destroy", "result", TRUE)>>)
        ELSE IF ~vids.ok \/ "vs" \in F
        THEN Fail(E3 \o <<Ev("igraphmodule_PyObject_to_vs_t", "vids", FALSE),
                          Ev(Bridge, "error", TRUE)>> \o result_weights)
        ELSE IF ~r.ok \/ "native" \in F
        THEN Fail(E4 \o <<Ev("igraph_constraint", "self", FALSE),
                          Ev(Bridge, "error", TRUE),
                          Ev("igraph_vs_destroy", "vids", TRUE)>>
                     \o result_weights)
        ELSE Exit("list", vector_t_to_PyList(r.res),
                  E4 \o <<Ev("igraph_constraint", "self", TRUE),
                          Ev("igraph_vs_destroy", "vids", TRUE)>>
                     \o result_weights)

\* ---------------------------------------------------------------------
\* Set operators on graphs.

\* Two edges are the same edge of a directed (dir) or undirected graph.
SameEdge(dir, e, f) == e = f \/ (~dir /\ e = <<f[2], f[1]>>)

\* The indices of the edges of a that are also edges of b.
Shared(a, b) ==
    {i \in 1 .. Len(a.edges) :
        \E j \in 1 .. Len(b.edges) :
           SameEdge(a.directed, a.edges[i], b.edges[j])}

PlainGraph(n, es, dir) ==
    [vcount |-> n, edges |-> es, directed |-> dir,
     vattr |-> [k \in VKeys |-> Absent], eattr |-> [k \in EKeys |-> Absent]]

\* igraph_disjoint_union(&res, left, right): the vertices of right follow
\* those of left.
e_disjoint_union(l, r) ==
    PlainGraph(l.vcount + r.vcount,
               l.edges \o [i \in 1 .. Len(r.edges) |->
                              <<r.edges[i][1] + l.vcount,
                                r.edges[i][2] + l.vcount>>],
               l.directed)

\* igraph_union(&res, left, right): the edges that are in at least one.
e_union(l, r) ==
    PlainGraph(Max(l.vcount, r.vcount),
               l.edges \o KeepFrom(r.edges, 1, Shared(r, l)), l.directed)

\* igraph_intersection(&res, left, right): the edges that are in both.
e_intersection(l, r) ==
    PlainGraph(Max(l.vcount, r.vcount),
               KeepFrom(l.edges, 1, (1 .. Len(l.edges)) \ Shared(l, r)),
               l.directed)

\* igraph_difference(&res, orig, sub): the edges of orig that are not in sub.
e_difference(l, r) ==
    PlainGraph(l.vcount, KeepFrom(l.edges, 1, Shared(l, r)), l.directed)

\* igraph_compose(&res, g1, g2): an edge from a to c for every edge from a
\* to b of g1 and from b to c of g2.
RECURSIVE ComposeEdges(_, _, _)
ComposeEdges(l, r, k) ==
    IF k > Len(l.edges) * Len(r.edges) THEN <<>>
    ELSE LET i == ((k - 1) \div Len(r.edges)) + 1
             j == ((k - 1) % Len(r.edges)) + 1
         IN  (IF l.edges[i][2] = r.edges[j][1]
              THEN << <<l.edges[i][1], r.edges[j][2]>> >> ELSE <<>>)
             \o ComposeEdges(l, r, k + 1)

e_compose(l, r) ==
    PlainGraph(Max(l.vcount, r.vcount), ComposeEdges(l, r, 1), l.directed)

\* The native operator of two graphs called igraph_<op>.
e_operator(op, l, r) ==
    IF op = "disjoint_union" THEN e_disjoint_union(l, r)
    ELSE IF op = "union" THEN e_union(l, r)
    ELSE IF op = "intersection" THEN e_intersection(l, r)
    ELSE IF op = "difference" THEN e_difference(l, r)
    ELSE e_compose(l, r)

\* igraph_disjoint_union_many, igraph_union_many, igraph_intersection_many
\* (&res, &graphs): the operator over the listed graphs, from the left.
RECURSIVE e_operator_many(_, _)
e_operator_many(op, gs) ==
    IF gs = <<>> THEN PlainGraph(0, <<>>, FALSE)
    ELSE IF Len(gs) = 1 THEN gs[1]
    ELSE e_operator(op, e_operator_many(op, SubSeq(gs, 1, Len(gs) - 1)),
                    gs[Len(gs)])

\* Graphs the host has at hand as operands, of the direction of the
\* receiver: one isolated vertex, and two vertices with an edge.
Operands(dir) == {PlainGraph(1, <<>>, dir), PlainGraph(2, << <<0, 1>> >>, dir)}

\* Host values handed over as the other operand: a graph, a list of
\* graphs, a list with an element that is no graph, and an integer.
OtherGraph(h) == [kind |-> "graph", gs |-> <<h>>]

Others(dir) ==
    {OtherGraph(h) : h \in Operands(dir)}
    \cup {[kind |-> "list", gs |-> gs] : gs \in ListsOf(Operands(dir))}
    \cup {[kind |-> "list of non-graphs", gs |-> <<>>],
          [kind |-> "int", gs |-> <<>>]}

\* PyObject_GetIter(other) succeeds on lists; a Graph and an integer are
\* not iterable.
Iterable(other) == other.kind \in {"list", "list of non-graphs"}

\* igraphmodule_PyIter_to_vector_ptr_t(it, &gs): the native graphs of the
\* listed handles; refuses an element that is not a Graph.
PyIter_to_vector_ptr_t(other) ==
    [ok |-> other.kind = "list", gs |-> other.gs]

\* PyObject_TypeCheck(other, &igraphmodule_GraphType).
IsGraph(other) == other.kind = "graph"

\* The calls that wrap a native result in a new handle (lines 3931-3941);
\* a failed allocation hands NULL back.
NewHandle(g, events, F) ==
    IF "alloc" \in F
    THEN Fail(events \o <<Ev("tp_alloc", "result", FALSE)>>)
    ELSE Exit("graph", g, events \o <<Ev("tp_alloc", "result", TRUE)>>)

\* The body shared by igraphmodule_Graph_disjoint_union, _union and
\* _intersection, which differ in the two native operators they call:
\* igraph_<op>_many for an iterable, igraph_<op> for a single graph.
NaryOperator(op, g, other, F) ==
    LET conv == PyIter_to_vector_ptr_t(other)
        two == "igraph_" \o op
        many == "igraph_" \o op \o "_many"
        I1 == <<Ev("PyObject_GetIter", "other", TRUE)>>
        I2 == I1 \o <<Ev("igraphmodule_PyIter_to_vector_ptr_t", "gs", TRUE),
                      Ev("Py_DECREF", "it", TRUE)>>
        N1 == <<Ev("PyObject_GetIter", "other", FALSE),
                Ev("PyErr_Clear", "error", TRUE)>>
    IN  IF Iterable(other)
        THEN IF ~conv.ok \/ "ptr" \in F
             THEN Fail(I1 \o <<Ev("igraphmodule_PyIter_to_vector_ptr_t", "gs",
                                  FALSE),
                               Ev("Py_DECREF", "it", TRUE)>>)
             ELSE IF "native" \in F
             THEN Fail(I2 \o <<Ev(many, "g", FALSE),
                               Ev("igraph_vector_ptr_destroy", "gs", TRUE),
                               Ev(Bridge, "error", TRUE)>>)
             ELSE NewHandle(e_operator_many(op, conv.gs),
                            I2 \o <<Ev(many, "g", TRUE),
                                    Ev("igraph_vector_ptr_destroy", "gs",
                                       TRUE)>>, F)
        ELSE IF ~IsGraph(other)
             THEN Exit("NotImplemented", <<>>, N1)
             ELSE IF "native" \in F
             THEN Fail(N1 \o <<Ev(two, "g", FALSE), Ev(Bridge, "error", TRUE)>>)
             ELSE NewHandle(e_operator(op, g, other.gs[1]),
                            N1 \o <<Ev(two, "g", TRUE)>>, F)

\* igraphmodule_Graph_disjoint_union(self, other).
Graph_disjoint_union(g, other, F) ==
    NaryOperator("disjoint_union", g, other, F)

\* igraphmodule_Graph_union(self, other).
Graph_union(g, other, F) ==
    NaryOperator("union", g, other, F)

\* igraphmodule_Graph_intersection(self, other).
Graph_intersection(g, other, F) ==
    NaryOperator("intersection", g, other, F)

\* The body shared by igraphmodule_Graph_difference and _compose.
BinaryOperator(op, g, other, F) ==
    IF ~IsGraph(other)
    THEN Exit("NotImplemented", <<>>, <<>>)
    ELSE IF "native" \in F
    THEN Fail(<<Ev("igraph_" \o op, "g", FALSE), Ev(Bridge, "error", TRUE)>>)
    ELSE NewHandle(e_operator(op, g, other.gs[1]),
                   <<Ev("igraph_" \o op, "g", TRUE)>>, F)

\* igraphmodule_Graph_difference(self, other).
Graph_difference(g, other, F) ==
    BinaryOperator("difference", g, other, F)

\* igraphmodule_Graph_compose(self, other).
Graph_compose(g, other, F) ==
    BinaryOperator("compose", g, other, F)

\* ---------------------------------------------------------------------
\* Further generators, called as class methods: the result is a new handle.

\* igraph_atlas(&g, n): the n-th graph of the atlas, of which the first
\* four are modelled; fails on a number outside the atlas.
AtlasGraphs == <<PlainGraph(0, <<>>, FALSE), PlainGraph(1, <<>>, FALSE),
                 PlainGraph(2, <<>>, FALSE),
                 PlainGraph(2, << <<0, 1>> >>, FALSE)>>
e_atlas(n) ==
    IF n \in 0 .. Len(AtlasGraphs) - 1
    THEN [ok |-> TRUE, g |-> AtlasGraphs[n + 1]]
    ELSE [ok |-> FALSE, g |-> NoGraph]

\* igraphmodule_Graph_Atlas(n).
Graph_Atlas(n, F) ==
    LET r == e_atlas(n)
        E1 == <<Ev("PyArg_ParseTuple", "args", TRUE)>>
        E2 == E1 \o <<Ev("tp_alloc", "self", TRUE)>>
    IN  IF "parse" \in F
        THEN Fail(<<Ev("PyArg_ParseTuple", "args", FALSE)>>)
        ELSE IF "alloc" \in F
        THEN Fail(E1 \o <<Ev("tp_alloc", "self", FALSE)>>)
        ELSE IF ~r.ok \/ "native" \in F
        THEN Fail(E2 \o <<Ev("igraph_atlas", "self", FALSE),
                          Ev(Bridge, "error", TRUE)>>)
        ELSE Exit("graph", r.g, E2 \o <<Ev("igraph_atlas", "self", TRUE)>>)

\* igraph_lattice(&g, &dimvector, nei, directed, mutual, circular) for at
\* most one dimension: a path on dimvector[1] vertices, closed to a ring
\* when circular; fails on a negative dimension.
e_lattice(dimvector, dir, circular) ==
    LET n == IF dimvector = <<>> THEN 1 ELSE dimvector[1]
        path == [i \in 1 .. Max(n, 1) - 1 |-> <<i - 1, i>>]
    IN  IF n < 0 THEN [ok |-> FALSE, g |-> NoGraph]
        ELSE [ok |-> TRUE,
              g |-> PlainGraph(n, IF circular /\ n > 2
                                  THEN path \o << <<n - 1, 0>> >> ELSE path,
                               dir)]

\* igraphmodule_Graph_Lattice(dim, nei, directed, mutual, circular), on
\* the runs where the unchecked igraph_vector_init succeeds.
Graph_Lattice(o_dimvector, dir, circular, F) ==
    LET bad == \E i \in 1 .. Len(o_dimvector) : o_dimvector[i] = NotInt
        r == e_lattice(o_dimvector, dir, circular)
        E1 == <<Ev(ParseArgs, "args", TRUE),
                Ev("igraph_vector_init", "dimvector", TRUE)>>
        E2 == E1 \o <<Ev("tp_alloc", "self", TRUE)>>
    IN  IF "parse" \in F
        THEN Fail(<<Ev(ParseArgs, "args", FALSE)>>)
        ELSE IF bad
        THEN Fail(E1 \o <<Ev(SetString, "TypeError", TRUE),
                          Ev("igraph_vector_destroy", "dimvector", TRUE)>>)
        ELSE IF "alloc" \in F
        THEN Fail(E1 \o <<Ev("tp_alloc", "self", FALSE),
                          Ev("igraph_vector_destroy", "dimvector", TRUE)>>)
        ELSE IF ~r.ok \/ "native" \in F
        THEN Fail(E2 \o <<Ev("igraph_lattice", "self", FALSE),
                          Ev("igraph_vector_destroy", "dimvector", TRUE),
                          Ev(Bridge, "error", TRUE)>>)
        ELSE Exit("graph", r.g,
                  E2 \o <<Ev("igraph_lattice", "self", TRUE),
                          Ev("igraph_vector_destroy", "dimvector", TRUE)>>)

\* igraph_barabasi_game, igraph_nonlinear_barabasi_game and
\* igraph_recent_degree_game(&g, n, ..., m, &outseq, ...): a graph on n
\* vertices with the edges es the game has drawn.
e_growth_game(n, es, dir) == [ok |-> TRUE, g |-> PlainGraph(n, es, dir)]

\* The body shared by igraphmodule_Graph_Barabasi and _Recent_Degree, which
\* differ in the native generator game they call. m_obj is an integer, a
\* list, or a value that is neither (None); in the last case no branch of
\* lines 862-870 assigns outseq, and the generator and the final
\* igraph_vector_destroy work on whatever the stack holds.
GrowthGenerator(game, n, m_obj, es, dir, F) ==
    LET conv == PyList_to_vector_t(m_obj.v)
        r == e_growth_game(n, es, dir)
        E1 == <<Ev(ParseArgs, "args", TRUE)>>
        E2 == E1 \o (IF m_obj.kind = "int"
                     THEN <<Ev("igraph_vector_init", "outseq", TRUE)>>
                     ELSE IF m_obj.kind = "list"
                     THEN <<Ev("igraphmodule_PyList_to_vector_t", "outseq",
                               TRUE)>>
                     ELSE <<>>)
        E3 == E2 \o <<Ev("tp_alloc", "self", TRUE)>>
    IN  IF "parse" \in F
        THEN Fail(<<Ev(ParseArgs, "args", FALSE)>>)
        ELSE IF n < 0
        THEN Fail(E1 \o <<Ev(SetString, "ValueError", TRUE)>>)
        ELSE IF m_obj.kind = "list" /\ ~conv.ok
        THEN Fail(E1 \o <<Ev("igraphmodule_PyList_to_vector_t", "outseq",
                             FALSE)>>)
        ELSE IF "alloc" \in F
        THEN Fail(E2 \o <<Ev("tp_alloc", "self", FALSE),
                          Ev("igraph_vector_destroy", "outseq", TRUE)>>)
        ELSE IF ~r.ok \/ "native" \in F
        THEN Fail(E3 \o <<Ev(game, "self", FALSE),
                          Ev(Bridge, "error", TRUE),
                          Ev("igraph_vector_destroy", "outseq", TRUE)>>)
        ELSE Exit("graph", r.g,
                  E3 \o <<Ev(game, "self", TRUE),
                          Ev("igraph_vector_destroy", "outseq", TRUE)>>)

\* igraphmodule_Graph_Barabasi(n, m, outpref, directed, power, zero_appeal):
\* the linear game for power = 0.0, the nonlinear one otherwise.
Graph_Barabasi(n, m_obj, linear, es, dir, F) ==
    GrowthGenerator(IF linear THEN "igraph_barabasi_game"
                    ELSE "igraph_nonlinear_barabasi_game",
                    n, m_obj, es, dir, F)

\* igraphmodule_Graph_Recent_Degree(n, m, window, ...).
Graph_Recent_Degree(n, m_obj, es, dir, F) ==
    GrowthGenerator("igraph_recent_degree_game", n, m_obj, es, dir, F)

\* What a build can do with the store through a handle that is NULL: the
\* process is killed, or the store goes unnoticed and the call goes on.
NullWrites == {"SIGSEGV", "NULL"}

\* igraphmodule_Graph_copy(): the native copy, then a handle for it.  The
\* handle is initialized and assigned whether or not tp_alloc returned one.
Graph_copy(g, ub, F) ==
    LET E1 == <<Ev("igraph_copy", "g", TRUE)>>
    IN  IF "native" \in F
        THEN Fail(<<Ev("igraph_copy", "g", FALSE), Ev(Bridge, "error", TRUE)>>)
        ELSE IF "alloc" \in F
        THEN Exit(ub, <<>>,
                  E1 \o <<Ev("tp_alloc", "result", FALSE),
                          Ev("igraphmodule_Graph_init_internal", "NULL",
                             TRUE)>>)
        ELSE Exit("graph", g,
                  E1 \o <<Ev("tp_alloc", "result", TRUE),
                          Ev("igraphmodule_Graph_init_internal", "result",
                             TRUE)>>)

\* ---------------------------------------------------------------------
\* File readers and writers.  A reader is a class method that returns a
\* new handle for the graph r the native reader has found in the file.

\* The body of a reader as it would be if the file were left open when the
\* native reader fails.
Graph_Read_leaves_open(op, r, F) ==
    LET E1 == <<Ev(ParseArgs, "args", TRUE)>>
        E2 == E1 \o <<Ev("fopen", "f", TRUE)>>
        E3 == E2 \o <<Ev(FileReaders[op], "g", TRUE)>>
    IN  IF "parse" \in F
        THEN Fail(<<Ev(ParseArgs, "args", FALSE)>>)
        ELSE IF "open" \in F
        THEN Fail(E1 \o <<Ev("fopen", "f", FALSE),
                          Ev(SetString, "IOError", TRUE)>>)
        ELSE IF "native" \in F
        THEN Fail(E2 \o <<Ev(FileReaders[op], "g", FALSE),
                          Ev(Bridge, "error", TRUE)>>)
        ELSE IF "alloc" \in F
        THEN Fail(E3 \o <<Ev("tp_alloc", "self", FALSE),
                          Ev("fclose", "f", TRUE)>>)
        ELSE Exit("graph", r, E3 \o <<Ev("tp_alloc", "self", TRUE),
                                      Ev("fclose", "f", TRUE)>>)

\* The body shared by igraphmodule_Graph_Read_Edgelist, _Read_Ncol,
\* _Read_Lgl, _Read_Pajek and _Read_GraphML, which differ in the native
\* reader they call.  When tp_alloc fails the native graph g is dropped
\* without a call of igraph_destroy.
Graph_Read(op, r, F) ==
    LET E1 == <<Ev(ParseArgs, "args", TRUE)>>
        E2 == E1 \o <<Ev("fopen", "f", TRUE)>>
        E3 == E2 \o <<Ev(FileReaders[op], "g", TRUE)>>
    IN  IF "parse" \in F
        THEN Fail(<<Ev(ParseArgs, "args", FALSE)>>)
        ELSE IF "open" \in F
        THEN Fail(E1 \o <<Ev("fopen", "f", FALSE),
                          Ev(SetString, "IOError", TRUE)>>)
        ELSE IF "native" \in F
        THEN Fail(E2 \o <<Ev(FileReaders[op], "g", FALSE),
                          Ev(Bridge, "error", TRUE),
                          Ev("fclose", "f", TRUE)>>)
        ELSE IF "alloc" \in F
        THEN Fail(E3 \o <<Ev("tp_alloc", "self", FALSE),
                          Ev("fclose", "f", TRUE)>>)
        ELSE Exit("graph", r, E3 \o <<Ev("tp_alloc", "self", TRUE),
                                      Ev("fclose", "f", TRUE)>>)

\* igraphmodule_Graph_Read_DIMACS(f, directed): the graph with the source,
\* the target and the capacities read from the file.
Graph_Read_DIMACS(r, F) ==
    LET E1 == <<Ev(ParseArgs, "args", TRUE)>>
        E2 == E1 \o <<Ev("fopen", "f", TRUE)>>
        E3 == E2 \o <<Ev("igraph_vector_init", "capacity", TRUE)>>
        E4 == E3 \o <<Ev(FileReaders.Read_DIMACS, "g", TRUE)>>
        E5 == E4 \o <<Ev("igraphmodule_vector_t_to_float_PyList",
                         "capacity_obj", TRUE)>>
        C == <<Ev("fclose", "f", TRUE),
               Ev("igraph_vector_destroy", "capacity", TRUE)>>
    IN  IF "parse" \in F
        THEN Fail(<<Ev(ParseArgs, "args", FALSE)>>)
        ELSE IF "open" \in F
        THEN Fail(E1 \o <<Ev("fopen", "f", FALSE),
                          Ev(SetString, "IOError", TRUE)>>)
        ELSE IF "capacity" \in F
        THEN Fail(E2 \o <<Ev("igraph_vector_init", "capacity", FALSE),
                          Ev(Bridge, "error", TRUE),
                          Ev("fclose", "f", TRUE)>>)
        ELSE IF "native" \in F
        THEN Fail(E3 \o <<Ev(FileReaders.Read_DIMACS, "g", FALSE),
                          Ev(Bridge, "error", TRUE),
                          Ev("igraph_vector_destroy", "capacity", TRUE),
                          Ev("fclose", "f", TRUE)>>)
        ELSE IF "list" \in F
        THEN Fail(E4 \o <<Ev("igraphmodule_vector_t_to_float_PyList",
                             "capacity_obj", FALSE),
                          Ev("igraph_vector_destroy", "capacity", TRUE),
                          Ev("fclose", "f", TRUE)>>)
        ELSE IF "alloc" \in F
        THEN Fail(E5 \o <<Ev("tp_alloc", "self", FALSE)>> \o C
                     \o <<Ev("Py_BuildValue", "result", FALSE)>>)
        ELSE Exit("tuple", <<r>>,
                  E5 \o <<Ev("tp_alloc", "self", TRUE)>> \o C
                     \o <<Ev("Py_BuildValue", "result", TRUE)>>)

\* The body shared by igraphmodule_Graph_write_edgelist, _write_ncol,
\* _write_lgl and _write_graphml.
Graph_write(op, F) ==
    LET E1 == <<Ev(ParseArgs, "args", TRUE)>>
        E2 == E1 \o <<Ev("fopen", "f", TRUE)>>
    IN  IF "parse" \in F
        THEN Fail(<<Ev(ParseArgs, "args", FALSE)>>)
        ELSE IF "open" \in F
        THEN Fail(E1 \o <<Ev("fopen", "f", FALSE),
                          Ev(SetString, "IOError", TRUE)>>)
        ELSE IF "native" \in F
        THEN Fail(E2 \o <<Ev(FileWriters[op], "self", FALSE),
                          Ev(Bridge, "error", TRUE),
                          Ev("fclose", "f", TRUE)>>)
        ELSE Exit("None", <<>>, E2 \o <<Ev(FileWriters[op], "self", TRUE),
                                        Ev("fclose", "f", TRUE)>>)

\* igraphmodule_Graph_write_dimacs(f, source, target, capacity) with the
\* default capacity.
Graph_write_dimacs(F) ==
    LET E1 == <<Ev(ParseArgs, "args", TRUE)>>
        E2 == E1 \o <<Ev("fopen", "f", TRUE)>>
        E3 == E2 \o <<Ev("igraphmodule_PyObject_to_attribute_values",
                         "capacity", TRUE)>>
    IN  IF "parse" \in F
        THEN Fail(<<Ev(ParseArgs, "args", FALSE)>>)
        ELSE IF "open" \in F
        THEN Fail(E1 \o <<Ev("fopen", "f", FALSE),
                          Ev(SetString, "IOError", TRUE)>>)
        ELSE IF "capacity" \in F
        THEN Fail(E2 \o <<Ev("igraphmodule_PyObject_to_attribute_values",
                             "capacity", FALSE),
                          Ev("fclose", "f", TRUE),
                          Ev(Bridge, "error", TRUE)>>)
        ELSE IF "native" \in F
        THEN Fail(E3 \o <<Ev(FileWriters.write_dimacs, "self", FALSE),
                          Ev(Bridge, "error", TRUE),
                          Ev("igraph_vector_destroy", "capacity", TRUE),
                          Ev("fclose", "f", TRUE)>>)
        ELSE Exit("None", <<>>,
                  E3 \o <<Ev(FileWriters.write_dimacs, "self", TRUE),
                          Ev("igraph_vector_destroy", "capacity", TRUE),
                          Ev("fclose", "f", TRUE)>>)

\* ---------------------------------------------------------------------
\* Minimum cuts.

\* The number of edges of g that leave the vertex set S (in either
\* direction when g is undirected): the capacity of the cut S with the
\* default capacity 1.0 on every edge.
CutValue(g, S) ==
    Cardinality({i \in 1 .. Len(g.edges) :
                    \/ g.edges[i][1] \in S /\ g.edges[i][2] \notin S
                    \/ /\ ~g.directed
                       /\ g.edges[i][2] \in S /\ g.edges[i][1] \notin S})

SetMin(S) == CHOOSE x \in S : \A y \in S : x <= y

\* igraph_st_mincut_value(&g, &value, source, target, &capacity): the
\* least capacity of a cut that separates source from target; fails when
\* one of them is not a vertex or they are the same vertex.
e_st_mincut_value(g, source, target) ==
    LET V == 0 .. g.vcount - 1
    IN  IF source \in V /\ target \in V /\ source # target
        THEN [ok |-> TRUE,
              value |-> SetMin({CutValue(g, S) :
                                  S \in {T \in SUBSET V : source \in T
                                                          /\ target \notin T}})]
        ELSE [ok |-> FALSE, value |-> 0]

\* igraph_mincut_value(&g, &value, &capacity): the least capacity of a cut
\* of the graph, 0 when it has fewer than two vertices.
e_mincut_value(g) ==
    LET V == 0 .. g.vcount - 1
    IN  [ok |-> TRUE,
         value |-> IF g.vcount < 2 THEN 0
                   ELSE SetMin({CutValue(g, S) : S \in SUBSET V \ {{}, V}})]

\* The loops of lines 4281-4302 from vertex v on: the minimum of the s-t
\* cuts with one end fixed and the other end running over the vertices
\* different from it (free_source tells which end runs); result is -1 as
\* long as no cut was computed.
RECURSIVE mincut_value_loop(_, _, _, _, _, _)
mincut_value_loop(g, fixed, free_source, v, result, F) ==
    LET r == IF free_source THEN e_st_mincut_value(g, v, fixed)
             ELSE e_st_mincut_value(g, fixed, v)
    IN  IF v >= g.vcount
        THEN [ok |-> TRUE, result |-> IF result < 0 THEN 0 ELSE result,
              events |-> <<>>]
        ELSE IF v = fixed
        THEN mincut_value_loop(g, fixed, free_source, v + 1, result, F)
        ELSE IF ~r.ok \/ "native" \in F
        THEN [ok |-> FALSE, result |-> result,
              events |-> <<Ev("igraph_st_mincut_value", "self", FALSE)>>]
        ELSE LET rest == mincut_value_loop(
                             g, fixed, free_source, v + 1,
                             IF result < 0 \/ result > r.value
                             THEN r.value ELSE result, F)
             IN  [rest EXCEPT !.events =
                      <<Ev("igraph_st_mincut_value", "self", TRUE)>> \o @]

\* igraphmodule_Graph_mincut_value(source, target, capacity) with the
\* default capacity.
Graph_mincut_value(g, vid1, vid2, F) ==
    LET E1 == <<Ev(ParseArgs, "args", TRUE)>>
        E2 == E1 \o <<Ev("igraphmodule_PyObject_to_attribute_values",
                         "capacity_vector", TRUE)>>
        D == <<Ev("igraph_vector_destroy", "capacity_vector", TRUE)>>
        B == <<Ev(Bridge, "error", TRUE)>>
        all == e_mincut_value(g)
        one == e_st_mincut_value(g, vid1, vid2)
        loop == IF vid1 = 0 - 1
                THEN mincut_value_loop(g, vid2, TRUE, 0, 0 - 1, F)
                ELSE mincut_value_loop(g, vid1, FALSE, 0, 0 - 1, F)
    IN  IF "parse" \in F
        THEN Fail(<<Ev(ParseArgs, "args", FALSE)>>)
        ELSE IF "capacity" \in F
        THEN Fail(E1 \o <<Ev("igraphmodule_PyObject_to_attribute_values",
                             "capacity_vector", FALSE)>> \o B)
        ELSE IF vid1 = 0 - 1 /\ vid2 = 0 - 1
        THEN IF ~all.ok \/ "native" \in F
             THEN Fail(E2 \o <<Ev("igraph_mincut_value", "self", FALSE)>>
                          \o D \o B)
             ELSE Exit("float", all.value,
                       E2 \o <<Ev("igraph_mincut_value", "self", TRUE)>> \o D)
        ELSE IF vid1 = 0 - 1 \/ vid2 = 0 - 1
        THEN IF ~loop.ok
             THEN Fail(E2 \o loop.events \o D \o B)
             ELSE Exit("float", loop.result, E2 \o loop.events \o D)
        ELSE IF ~one.ok \/ "native" \in F
             THEN Fail(E2 \o <<Ev("igraph_st_mincut_value", "self", FALSE)>>
                          \o D \o B)
             ELSE Exit("float", one.value,
                       E2 \o <<Ev("igraph_st_mincut_value", "self", TRUE)>>
                          \o D)

\* ---------------------------------------------------------------------
\* Queries without a selector, and the calls of the initializer.

\* igraph_are_connected(&g, v1, v2, &res): fails on an id that is not a
\* vertex.
e_are_connected(g, v1, v2) ==
    [ok |-> v1 \in 0 .. g.vcount - 1 /\ v2 \in 0 .. g.vcount - 1,
     res |-> \E i \in 1 .. Len(g.edges) : EdgeMatches(g, g.edges[i], v1, v2)]

\* igraphmodule_Graph_are_connected(v1, v2).
Graph_are_connected(g, v1, v2, F) ==
    LET r == e_are_connected(g, v1, v2)
        E1 == <<Ev(ParseArgs, "args", TRUE)>>
    IN  IF "parse" \in F
        THEN Fail(<<Ev(ParseArgs, "args", FALSE)>>)
        ELSE IF ~r.ok \/ "native" \in F
        THEN Fail(E1 \o <<Ev("igraph_are_connected", "self", FALSE)>>)
        ELSE Exit("bool", r.res,
                  E1 \o <<Ev("igraph_are_connected", "self", TRUE)>>)

\* w is reached from u along one edge in the given mode.
Adjacent(g, u, w, mode) ==
    \E i \in 1 .. Len(g.edges) :
       \/ (g.directed /\ mode = "IN") /\ g.edges[i] = <<w, u>>
       \/ (g.directed /\ mode = "OUT") /\ g.edges[i] = <<u, w>>
       \/ (~g.directed \/ mode = "ALL") /\ g.edges[i] \in {<<u, w>>, <<w, u>>}

RECURSIVE AscendingSeq(_)
AscendingSeq(S) ==
    IF S = {} THEN <<>>
    ELSE LET m == CHOOSE x \in S : \A y \in S : x <= y
         IN  <<m>> \o AscendingSeq(S \ {m})

\* The layers of a breadth first search: the frontier, then what is one
\* edge further and not yet seen, and so on.
RECURSIVE BfsLayers(_, _, _, _)
BfsLayers(g, mode, frontier, seen) ==
    IF frontier = {} THEN <<>>
    ELSE LET next == {w \in 0 .. g.vcount - 1 :
                         w \notin seen
                         /\ \E u \in frontier : Adjacent(g, u, w, mode)}
         IN  <<frontier>> \o BfsLayers(g, mode, next, seen \cup next)

RECURSIVE InOrder(_)
InOrder(L) ==
    IF L = <<>> THEN <<>> ELSE AscendingSeq(Head(L)) \o InOrder(Tail(L))

\* igraph_bfs(&g, vid, mode, &vids, &layers, &parents): the vertices in
\* visiting order, the start index of every layer and the parent of every
\* vertex; fails when vid is not a vertex.
e_bfs(g, vid, mode) ==
    LET L == BfsLayers(g, mode, {vid}, {vid})
        parent(w) ==
            IF w = vid THEN vid
            ELSE IF \E k \in 2 .. Len(L) : w \in L[k]
            THEN LET k == CHOOSE k \in 2 .. Len(L) : w \in L[k]
                 IN  AscendingSeq({u \in L[k - 1] : Adjacent(g, u, w, mode)})[1]
            ELSE 0
    IN  IF vid \notin 0 .. g.vcount - 1
        THEN [ok |-> FALSE, vids |-> <<>>, layers |-> <<>>, parents |-> <<>>]
        ELSE [ok |-> TRUE, vids |-> InOrder(L),
              layers |-> [k \in 1 .. Len(L) + 1 |->
                             Len(InOrder(SubSeq(L, 1, k - 1)))],
              parents |-> [i \in 1 .. g.vcount |-> parent(i - 1)]]

BfsBuffers == <<"vids", "layers", "parents">>
\* Lines 4185-4193 of igraphmodule_Graph_bfs: the three result vectors are
\* initialized one after the other; a failure sets MemoryError and the
\* function goes on.
RECURSIVE bfs_inits(_, _)
bfs_inits(k, F) ==
    IF k > Len(BfsBuffers) THEN <<>>
    ELSE <<Ev("igraph_vector_init", BfsBuffers[k], BfsBuffers[k] \notin F)>>
         \o (IF BfsBuffers[k] \in F
             THEN <<Ev(SetString, "MemoryError", TRUE)>> ELSE <<>>)
         \o bfs_inits(k + 1, F)

\* igraphmodule_Graph_bfs(vid, mode).
Graph_bfs(g, vid, mode, F) ==
    LET r == e_bfs(g, vid, mode)
        E1 == <<Ev(ParseArgs, "args", TRUE)>>
        E2 == E1 \o bfs_inits(1, F)
    IN  IF "parse" \in F
        THEN Fail(<<Ev(ParseArgs, "args", FALSE)>>)
        ELSE IF vid < 0 \/ vid > g.vcount
        THEN Fail(E1 \o <<Ev(SetString, "ValueError", TRUE)>>)
        ELSE IF ~r.ok \/ "native" \in F
        THEN Fail(E2 \o <<Ev("igraph_bfs", "self", FALSE),
                          Ev(Bridge, "error", TRUE)>>)
        ELSE Exit("tuple",
                  <<vector_t_to_PyList(r.vids), vector_t_to_PyList(r.layers),
                    vector_t_to_PyList(r.parents)>>,
                  E2 \o <<Ev("igraph_bfs", "self", TRUE),
                          Ev("igraph_vector_destroy", "vids", TRUE),
                          Ev("igraph_vector_destroy", "layers", TRUE),
                          Ev("igraph_vector_destroy", "parents", TRUE)>>)

\* igraph_subcomponent(&g, &res, from, mode): the vertices that can be
\* reached from the vertex from; fails when from is not a vertex.
e_subcomponent(g, from, mode) ==
    [ok |-> from \in 0 .. g.vcount - 1,
     res |-> IF from \in 0 .. g.vcount - 1
             THEN InOrder(BfsLayers(g, mode, {from}, {from})) ELSE <<>>]

\* igraphmodule_Graph_subcomponent(v, mode).
Graph_subcomponent(g, from0, mode, F) ==
    LET r == e_subcomponent(g, from0, mode)
        E1 == <<Ev(ParseArgs, "args", TRUE)>>
        E2 == E1 \o <<Ev("igraph_vector_init", "res", TRUE)>>
    IN  IF "parse" \in F
        THEN Fail(<<Ev(ParseArgs, "args", FALSE)>>)
        ELSE IF mode = BadMode
        THEN Fail(E1 \o <<Ev(SetString, "ValueError", TRUE)>>)
        ELSE IF from0 < 0 \/ from0 >= g.vcount
        THEN Fail(E1 \o <<Ev(SetString, "ValueError", TRUE)>>)
        ELSE IF ~r.ok \/ "native" \in F
        THEN Fail(E2 \o <<Ev("igraph_subcomponent", "self", FALSE),
                          Ev(Bridge, "error", TRUE),
                          Ev("igraph_vector_destroy", "res", TRUE)>>)
        ELSE Exit("list", vector_t_to_PyList(r.res),
                  E2 \o <<Ev("igraph_subcomponent", "self", TRUE),
                          Ev("igraphmodule_vector_t_to_PyList", "list", TRUE),
                          Ev("igraph_vector_destroy", "res", TRUE)>>)

\* igraph_isoclass(&g, &isoclass) and igraph_isoclass_subgraph(&g, &vids,
\* &isoclass); the class is written as the edges it is the class of.
e_isoclass_subgraph(g, vidsvec) ==
    [ok |-> \A i \in 1 .. Len(vidsvec) : vidsvec[i] \in 0 .. g.vcount - 1,
     isoclass |-> KeepFrom(g.edges, 1,
                           {i \in 1 .. Len(g.edges) :
                               \E j \in 1 .. 2 :
                                  g.edges[i][j] \notin Range(vidsvec)})]

\* igraphmodule_Graph_isoclass(vertices); given: the host passes a list.
Graph_isoclass(g, given, vids, F) ==
    LET n == IF given THEN Len(vids) ELSE g.vcount
        conv == PyList_to_vector_t(vids)
        sub == e_isoclass_subgraph(g, conv.v)
        E1 == <<Ev(ParseArgs, "args", TRUE)>>
        E2 == E1 \o <<Ev("igraphmodule_PyList_to_vector_t", "vidsvec", TRUE)>>
    IN  IF "parse" \in F
        THEN Fail(<<Ev(ParseArgs, "args", FALSE)>>)
        ELSE IF n < 3 \/ n > 4
        THEN Fail(E1 \o <<Ev(SetString, "ValueError", TRUE)>>)
        ELSE IF given
        THEN IF ~conv.ok
             THEN Fail(E1 \o <<Ev("igraphmodule_PyList_to_vector_t", "vidsvec",
                                  FALSE),
                               Ev(SetString, "ValueError", TRUE)>>)
             ELSE IF ~sub.ok \/ "native" \in F
             THEN Fail(E2 \o <<Ev("igraph_isoclass_subgraph", "self", FALSE),
                               Ev(Bridge, "error", TRUE)>>)
             ELSE Exit("scalar", sub.isoclass,
                       E2 \o <<Ev("igraph_isoclass_subgraph", "self", TRUE)>>)
        ELSE IF "native" \in F
             THEN Fail(E1 \o <<Ev("igraph_isoclass", "self", FALSE),
                               Ev(Bridge, "error", TRUE)>>)
             ELSE Exit("scalar", g.edges,
                       E1 \o <<Ev("igraph_isoclass", "self", TRUE)>>)

\* The failure indicator of the initializer.
FailInt(events) == Exit("-1", <<>>, events)

\* The calls of igraphmodule_Graph_init(n, edges, directed); given: the
\* host passes an edge list.
Graph_init_calls(n, given, edges, dir, F) ==
    LET conv == PyList_to_vector_t_pairs(edges)
        E1 == <<Ev(ParseArgs, "args", TRUE)>>
        E2 == E1 \o <<Ev("igraphmodule_PyList_to_vector_t", "edges_vector",
                         TRUE)>>
    IN  IF "parse" \in F
        THEN FailInt(<<Ev(ParseArgs, "args", FALSE)>>)
        ELSE IF given
        THEN IF ~conv.ok
             THEN FailInt(E1 \o <<Ev("igraphmodule_PyList_to_vector_t",
                                     "edges_vector", FALSE),
                                  Ev(Bridge, "error", TRUE)>>)
             ELSE IF n < 0 \/ "native" \in F
             THEN FailInt(E2 \o <<Ev("igraph_create", "self", FALSE),
                                  Ev(Bridge, "error", TRUE)>>)
             ELSE Exit("0", e_create(conv.v, n, dir),
                       E2 \o <<Ev("igraph_create", "self", TRUE),
                               Ev("igraph_vector_destroy", "edges_vector",
                                  TRUE)>>)
        ELSE IF n < 0 \/ "native" \in F
             THEN FailInt(E1 \o <<Ev("igraph_empty", "self", FALSE),
                                  Ev(Bridge, "error", TRUE)>>)
             ELSE Exit("0", e_empty(n, dir),
                       E1 \o <<Ev("igraph_empty", "self", TRUE)>>)

\* The idle host calls the operation op with the host arguments args; run
\* is what the operation does with them.
HostCall(op, args, run) ==
    /\ call' = Call(op, args, run)
    /\ UNCHANGED <<self, engine, py, graph, lastOp, visited, attrs>>

\* The host has looked at the result of a call and goes on.
HostResumes ==
    /\ call.op # "none"
    /\ call' = NoCall
    /\ UNCHANGED <<self, engine, py, graph, lastOp, visited, attrs>>

\* A graph that Graph(n, directed=dir) has just constructed.
InitMut ==
    /\ \E n \in 0 .. MaxV, dir \in BOOLEAN : graph = e_empty(n, dir)
    /\ self = [Graph_init_internal(AllocatedObject) EXCEPT !.g = 1,
                                                          !.attr = "set"]
    /\ engine = [created |-> 1, released |-> [i \in 1 .. MaxInit |-> 0],
                 bogus |-> 0]
    /\ py = [ext |-> TRUE, frames |-> <<>>, done |-> <<>>,
             invoked |-> [c \in Callables |-> 0], lastReg |-> NULL,
             dropped |-> {},
             attempts |-> 0, dels |-> 0, uaf |-> FALSE, gcPath |-> "none"]
    /\ lastOp = Op("init", "empty", "ok", TRUE)
    /\ visited = <<>>
    /\ call = NoCall
    /\ attrs = NoAttrs

NextMut ==
    \/ \E n \in NVals \cup {NotInt}, engineOK \in BOOLEAN :
          Graph_add_vertices(n, engineOK)
    \/ \E list \in ListsOf(HostElems), engineOK \in BOOLEAN :
          Graph_delete_vertices(list, engineOK)
    \/ \E list \in ListsOf(HostPairs), engineOK \in BOOLEAN :
          Graph_add_edges(list, engineOK)
    \/ \E list \in ListsOf(HostElems), native \in NativeOutcomes :
          Graph_delete_edges(list, TRUE, native)
    \/ \E list \in ListsOf(HostPairs), native \in NativeOutcomes :
          Graph_delete_edges(list, FALSE, native)
    \/ \E k \in VKeys : SetVertexAttr(k)
    \/ \E k \in EKeys : SetEdgeAttr(k)
    \/ \E n \in 0 .. MaxV, key \in VKeys \cup {NULL}, dir \in BOOLEAN,
          F \in OneFailure(FailureSteps.mutating) :
          \E es \in GameEdges(n) : Generate_Preference(n, key, es, dir, F)
    \/ \E n \in 0 .. MaxV, key \in VKeys \cup {NULL},
          F \in OneFailure(FailureSteps.mutating) :
          \E es \in GameEdges(n) :
             Generate_Asymmetric_Preference(n, key, es, F)

SpecMut == InitMut /\ [][NextMut]_vars

\* ---------------------------------------------------------------------
\* The attribute store of the graph scope: a host dictionary, kept in
\* self->g.attr[ATTRHASH_IDX_GRAPH].

\* Py_INCREF(v) and Py_DECREF(v) on the reference counts rc.
Py_INCREF(rc, v) == [rc EXCEPT ![v] = @ + 1]
Py_DECREF(rc, v) == [rc EXCEPT ![v] = @ - 1]

\* PyDict_SetItem(dict, k, v) of the host, on the record a: the dictionary
\* takes a reference of its own to v and gives up the one to the value it
\* held under k.
PyDict_SetItem(a, k, v) ==
    LET rc1 == Py_INCREF(a.rc, v)
    IN  [a EXCEPT !.dict[k] = v,
                  !.rc = IF a.dict[k] = NULL THEN rc1
                         ELSE Py_DECREF(rc1, a.dict[k])]

\* PyDict_DelItem(dict, k) of the host for a key that is present.
PyDict_DelItem(a, k) ==
    [a EXCEPT !.dict[k] = NULL, !.rc = Py_DECREF(a.rc, a.dict[k])]

\* igraphmodule_Graph_set_attribute as it would be if the deletion of an
\* absent key were reported as a success.
set_attribute_delete_silent(k, v, ok) ==
    /\ HostCanCall
    /\ v # NULL => attrs.rc[v] + 2 <= MaxRefs
    /\ IF v = NULL
       THEN IF attrs.dict[k] = NULL
            THEN /\ attrs' = attrs
                 /\ lastOp' = Op("del_attribute", k, "0", FALSE)
            ELSE /\ attrs' = PyDict_DelItem(attrs, k)
                 /\ lastOp' = Op("del_attribute", k, "0", FALSE)
       ELSE LET a1 == [attrs EXCEPT !.rc = Py_INCREF(@, v)]
            IN  IF ok
                THEN /\ attrs' = PyDict_SetItem(a1, k, v)
                     /\ lastOp' = Op("set_attribute", <<k, v>>, "0", FALSE)
                ELSE /\ attrs' = [a1 EXCEPT !.rc = Py_DECREF(@, v)]
                     /\ lastOp' = Op("set_attribute", <<k, v>>, "-1", FALSE)
    /\ UNCHANGED <<self, engine, py, graph, visited, call>>

\* igraphmodule_Graph_set_attribute(self, k, v): v = NULL deletes the key
\* (PyDict_DelItem fails with KeyError on an absent key); otherwise
\* Py_INCREF(v), then PyDict_SetItem, and Py_DECREF(v) only when that
\* fails (ok = FALSE).
Graph_set_attribute(k, v, ok) ==
    /\ HostCanCall
    /\ v # NULL => attrs.rc[v] + 2 <= MaxRefs
    /\ IF v = NULL
       THEN IF attrs.dict[k] = NULL
            THEN /\ attrs' = attrs
                 /\ lastOp' = Op("del_attribute", k, "KeyError", FALSE)
            ELSE /\ attrs' = PyDict_DelItem(attrs, k)
                 /\ lastOp' = Op("del_attribute", k, "0", FALSE)
       ELSE LET a1 == [attrs EXCEPT !.rc = Py_INCREF(@, v)]
            IN  IF ok
                THEN /\ attrs' = PyDict_SetItem(a1, k, v)
                     /\ lastOp' = Op("set_attribute", <<k, v>>, "0", FALSE)
                ELSE /\ attrs' = [a1 EXCEPT !.rc = Py_DECREF(@, v)]
                     /\ lastOp' = Op("set_attribute", <<k, v>>, "-1", FALSE)
    /\ UNCHANGED <<self, engine, py, graph, visited, call>>

\* igraphmodule_Graph_get_attribute(self, s): the value under s with a new
\* reference for the caller, KeyError when PyDict_GetItem finds none.
Graph_get_attribute(k) ==
    /\ HostCanCall
    /\ IF attrs.dict[k] = NULL
       THEN /\ attrs' = attrs
            /\ lastOp' = Op("get_attribute", k, "KeyError", FALSE)
       ELSE /\ attrs.held[attrs.dict[k]] = 0
            /\ attrs.rc[attrs.dict[k]] < MaxRefs
            /\ attrs' = [attrs EXCEPT !.rc = Py_INCREF(@, attrs.dict[k]),
                                      !.held[attrs.dict[k]] = 1]
            /\ lastOp' = Op("get_attribute", k, attrs.dict[k], FALSE)
    /\ UNCHANGED <<self, engine, py, graph, visited, call>>

\* igraphmodule_Graph_attribute_count(self): PyDict_Size of the dictionary.
Graph_attribute_count ==
    /\ HostCanCall
    /\ lastOp' = Op("attribute_count", NULL,
                    Cardinality({k \in GKeys : attrs.dict[k] # NULL}), FALSE)
    /\ UNCHANGED <<self, engine, py, graph, visited, call, attrs>>

\* The host releases a value it got from get_attribute.
HostReleases(v) ==
    /\ attrs.held[v] > 0
    /\ attrs' = [attrs EXCEPT !.rc = Py_DECREF(@, v), !.held[v] = @ - 1]
    /\ lastOp' = Op("release", v, "ok", FALSE)
    /\ UNCHANGED <<self, engine, py, graph, visited, call>>

\* The references the dictionary gives up when it is destroyed: one for
\* every key, to the value stored under it.
RECURSIVE PyDict_dealloc(_, _)
PyDict_dealloc(a, ks) ==
    IF ks = {} THEN a
    ELSE LET k == CHOOSE k \in ks : TRUE
         IN  PyDict_dealloc(IF a.dict[k] = NULL THEN a ELSE PyDict_DelItem(a, k),
                            ks \ {k})

\* The host drops the graph: tp_dealloc runs, and the destroy hook of the
\* attribute handler, called by igraph_destroy, releases the dictionary.
DropRefsAndStore(nulls) ==
    /\ HostCanCall
    /\ self.destructor = NULL
    /\ SetWorld(Graph_dealloc([World EXCEPT !.py.ext = FALSE], nulls))
    /\ attrs' = PyDict_dealloc(attrs, GKeys)
    /\ lastOp' = Op("drop", NULL, "ok", FALSE)
    /\ UNCHANGED <<graph, visited, call>>

\* A constructed graph whose graph attributes are set, read and deleted,
\* until the host drops it.
NextAttr ==
    \/ \E k \in GKeys, v \in GValues \cup {NULL}, ok \in BOOLEAN :
          Graph_set_attribute(k, v, ok)
    \/ \E k \in GKeys : Graph_get_attribute(k)
    \/ Graph_attribute_count
    \/ \E v \in GValues : HostReleases(v)
    \/ \E nulls \in BOOLEAN : DropRefsAndStore(nulls)

SpecAttr == InitMut /\ [][NextAttr]_vars

\* A constructed graph whose views are read while it is mutated, until the
\* host drops it.
NextView ==
    \/ \E ok \in BOOLEAN : Graph_get_vertices(ok)
    \/ \E ok \in BOOLEAN : Graph_get_edges(ok)
    \/ \E n \in NVals \cup {NotInt}, engineOK \in BOOLEAN :
          Graph_add_vertices(n, engineOK)
    \/ \E list \in ListsOf(HostElems), engineOK \in BOOLEAN :
          Graph_delete_vertices(list, engineOK)
    \/ \E list \in ListsOf(HostPairs), engineOK \in BOOLEAN :
          Graph_add_edges(list, engineOK)
    \/ \E list \in ListsOf(HostElems), native \in NativeOutcomes :
          Graph_delete_edges(list, TRUE, native)
    \/ \E nulls \in BOOLEAN : DropRefs(nulls)

SpecView == InitMut /\ [][NextView]_vars

\* A constructed graph with some edges, on which queries and operators are
\* called.
InitCall ==
    /\ \E n \in 0 .. MaxV, dir \in BOOLEAN :
          \E es \in ListsOf((0 .. n - 1) \X (0 .. n - 1)) :
             /\ Len(es) <= MaxE
             /\ graph = e_create(PyList_to_vector_t_pairs(es).v, n, dir)
    /\ self = [Graph_init_internal(AllocatedObject) EXCEPT !.g = 1,
                                                          !.attr = "set"]
    /\ engine = [created |-> 1, released |-> [i \in 1 .. MaxInit |-> 0],
                 bogus |-> 0]
    /\ py = [ext |-> TRUE, frames |-> <<>>, done |-> <<>>,
             invoked |-> [c \in Callables |-> 0], lastReg |-> NULL,
             dropped |-> {},
             attempts |-> 0, dels |-> 0, uaf |-> FALSE, gcPath |-> "none"]
    /\ lastOp = Op("init", "create", "ok", TRUE)
    /\ visited = <<>>
    /\ call = NoCall
    /\ attrs = NoAttrs

NextCall ==
    \/ HostIdle /\ \E list \in Selectors, dtype \in Modes \cup {BadMode},
          loops \in BOOLEAN, F \in OneFailure(FailureSteps.degree) :
          HostCall("degree", <<list, dtype, loops>>,
                   Graph_degree(graph, list, dtype, loops, F))
    \/ HostIdle /\ \E vobj \in Selectors, F \in OneFailure(FailureSteps.query) :
          HostCall("betweenness", <<vobj>>, Graph_betweenness(graph, vobj, F))
    \/ HostIdle /\ \E vobj \in Selectors, F \in OneFailure(FailureSteps.query) :
          HostCall("bibcoupling", <<vobj>>, Graph_bibcoupling(graph, vobj, F))
    \/ HostIdle /\ \E vobj \in Selectors, mode \in Modes \cup {BadMode},
          F \in OneFailure(FailureSteps.query) :
          HostCall("shortest_paths", <<vobj, mode>>,
                   Graph_shortest_paths(graph, vobj, mode, F))
    \/ HostIdle /\ \E vobj \in Selectors, F \in OneFailure(FailureSteps.constraint) :
          HostCall("constraint", <<vobj>>, Graph_constraint(graph, vobj, F))
    \/ HostIdle /\ \E other \in Others(graph.directed),
          F \in OneFailure(FailureSteps.operator) :
          HostCall("disjoint_union", <<other>>,
                   Graph_disjoint_union(graph, other, F))
    \/ HostIdle /\ \E other \in Others(graph.directed),
          F \in OneFailure(FailureSteps.operator) :
          HostCall("union", <<other>>, Graph_union(graph, other, F))
    \/ HostIdle /\ \E other \in Others(graph.directed),
          F \in OneFailure(FailureSteps.operator) :
          HostCall("intersection", <<other>>,
                   Graph_intersection(graph, other, F))
    \/ HostIdle /\ \E other \in Others(graph.directed),
          F \in OneFailure(FailureSteps.operator) :
          HostCall("difference", <<other>>, Graph_difference(graph, other, F))
    \/ HostIdle /\ \E other \in Others(graph.directed),
          F \in OneFailure(FailureSteps.operator) :
          HostCall("compose", <<other>>, Graph_compose(graph, other, F))
    \/ HostIdle /\ \E n \in (0 - 1) .. Len(AtlasGraphs),
          F \in OneFailure(FailureSteps.generator) :
          HostCall("Atlas", <<n>>, Graph_Atlas(n, F))
    \/ HostIdle /\ \E dim \in {l \in ListsOf(HostElems) : Len(l) <= 1}, dir \in BOOLEAN,
          circular \in BOOLEAN, F \in OneFailure(FailureSteps.generator) :
          HostCall("Lattice", <<dim, dir, circular>>,
                   Graph_Lattice(dim, dir, circular, F))
    \/ HostIdle /\ \E n \in 0 .. MaxV, key \in VKeys \cup {NULL}, dir \in BOOLEAN,
          F \in OneFailure(FailureSteps.Preference) :
          \E es \in GameEdges(n) :
             HostCall("Preference", <<n, key, dir>>,
                      Graph_Preference(n, key, es, dir, F))
    \/ HostIdle /\ \E n \in 0 .. MaxV, key \in VKeys \cup {NULL},
          F \in OneFailure(FailureSteps.Asymmetric_Preference) :
          \E es \in GameEdges(n) :
             HostCall("Asymmetric_Preference", <<n, key>>,
                      Graph_Asymmetric_Preference(n, key, es, F))
    \/ HostIdle /\ \E v1 \in HostIds \cup {0 - 1}, v2 \in HostIds \cup {0 - 1},
          F \in OneFailure(FailureSteps.plain) :
          HostCall("are_connected", <<v1, v2>>,
                   Graph_are_connected(graph, v1, v2, F))
    \/ HostIdle /\ \E vid \in HostIds \cup {0 - 1}, mode \in Modes,
          F \in SUBSET FailureSteps.bfs :
          HostCall("bfs", <<vid, mode>>, Graph_bfs(graph, vid, mode, F))
    \/ HostIdle /\ \E given \in BOOLEAN,
          vids \in {<<0, 1>>, <<0, 1, 0>>, <<0, NotInt, 1>>},
          F \in OneFailure(FailureSteps.plain) :
          HostCall("isoclass", <<given, vids>>,
                   Graph_isoclass(graph, given, vids, F))
    \/ HostIdle /\ \E n \in InitNs, given \in BOOLEAN, edges \in InitLists,
          dir \in BOOLEAN, F \in OneFailure(FailureSteps.plain) :
          HostCall("init", <<n, given, edges, dir>>,
                   Graph_init_calls(n, given, edges, dir, F))
    \/ HostIdle /\ \E n \in {0 - 1, MaxV}, m_obj \in Selectors,
                      linear \in BOOLEAN, dir \in BOOLEAN,
                      F \in OneFailure(FailureSteps.generator) :
          \E es \in GameEdges(n) :
             HostCall("Barabasi", <<n, m_obj, linear, dir>>,
                      Graph_Barabasi(n, m_obj, linear, es, dir, F))
    \/ HostIdle /\ \E n \in {0 - 1, MaxV}, m_obj \in Selectors,
                      dir \in BOOLEAN,
                      F \in OneFailure(FailureSteps.generator) :
          \E es \in GameEdges(n) :
             HostCall("Recent_Degree", <<n, m_obj, dir>>,
                      Graph_Recent_Degree(n, m_obj, es, dir, F))
    \/ HostIdle /\ \E vid1 \in HostIds \cup {0 - 1, 0 - 2},
                      vid2 \in HostIds \cup {0 - 1, 0 - 2},
                      F \in OneFailure(FailureSteps.mincut) :
          HostCall("mincut_value", <<vid1, vid2, F>>,
                   Graph_mincut_value(graph, vid1, vid2, F))
    \/ HostIdle /\ \E from0 \in HostIds \cup {0 - 1},
                      mode \in Modes \cup {BadMode},
                      F \in OneFailure(FailureSteps.plain) :
          HostCall("subcomponent", <<from0, mode>>,
                   Graph_subcomponent(graph, from0, mode, F))
    \/ HostIdle /\ \E op \in DOMAIN FileReaders \ {"Read_DIMACS"},
                      r \in Operands(TRUE),
                      F \in OneFailure(FailureSteps.file) :
          HostCall(op, <<>>, Graph_Read(op, r, F))
    \/ HostIdle /\ \E r \in Operands(TRUE),
                      F \in OneFailure(FailureSteps.dimacs) :
          HostCall("Read_DIMACS", <<>>, Graph_Read_DIMACS(r, F))
    \/ HostIdle /\ \E op \in DOMAIN FileWriters \ {"write_dimacs"},
                      F \in OneFailure(FailureSteps.file \ {"alloc"}) :
          HostCall(op, <<>>, Graph_write(op, F))
    \/ HostIdle /\ \E F \in OneFailure(FailureSteps.dimacs
                                         \ {"list", "alloc"}) :
          HostCall("write_dimacs", <<>>, Graph_write_dimacs(F))
    \/ HostIdle /\ \E ub \in NullWrites, F \in OneFailure(FailureSteps.copy) :
          HostCall("copy", <<>>, Graph_copy(graph, ub, F))
    \/ HostResumes

SpecCall == InitCall /\ [][NextCall]_vars

Next ==
    \/ \E ok \in BOOLEAN : Graph_new(ok)
    \/ \E how \in {"parse", "create", "empty"}, n \in InitNs,
          edges \in InitLists, dir \in BOOLEAN, engineOK \in BOOLEAN :
          Graph_init(how, n, edges, dir, engineOK)
    \/ \E x \in Callables \cup NonCallables \cup {Missing} :
          Graph___register_destructor__(x)
    \/ \E ok \in BOOLEAN : Graph_get_vertices(ok)
    \/ \E ok \in BOOLEAN : Graph_get_edges(ok)
    \/ MakeWeakRef
    \/ \E stop \in 0 .. 4 : Traverse(stop)
    \/ \E nulls \in BOOLEAN : DropRefs(nulls)
    \/ \E first \in {"graph", "cell"}, nulls \in BOOLEAN :
          CollectCycle(first, nulls)
    \/ \E nulls \in BOOLEAN : CollectFinish(nulls)
    \/ \E nulls \in BOOLEAN : CollectDuringCallback(nulls)
    \/ \E nulls \in BOOLEAN : ResurrectDuringCallback(nulls)
    \/ CallbackReturns

Spec == Init /\ [][Next]_vars

\* ---------------------------------------------------------------------
\* Properties.

\* Position of the first x in seq, 0 when x does not occur.
Pos(seq, x) ==
    IF x \in Range(seq)
    THEN CHOOSE i \in 1 .. Len(seq) :
            seq[i] = x /\ \A j \in 1 .. i - 1 : seq[j] # x
    ELSE 0

\* When both a and b occur in seq, a occurs first.
Precedes(seq, a, b) ==
    (Pos(seq, a) # 0 /\ Pos(seq, b) # 0) => Pos(seq, a) < Pos(seq, b)

RECURSIVE SumOver(_, _)
SumOver(f, S) ==
    IF S = {} THEN 0
    ELSE LET c == CHOOSE c \in S : TRUE IN f[c] + SumOver(f, S \ {c})

TotalInvoked == SumOver(py.invoked, Callables)

\* The handle has been deallocated and no deallocation is in progress.
Finished == self.alloc = "freed" /\ py.frames = <<>>

\* The step sequences of the deallocations in progress and of the last
\* completed one.
Activations == Range(py.frames) \cup {py.done}

\* C1: every native structure created for the handle is released exactly
\* once: never more than once, and once when the handle is gone.
C1_ReleasedExactlyOnce ==
    /\ \A i \in 1 .. engine.created : engine.released[i] <= 1
    /\ Finished => \A i \in 1 .. engine.created : engine.released[i] = 1

\* C2: after the collector has broken a graph/finalizer cycle through
\* traverse, tp_clear and deallocation, the native structure has been
\* released exactly once and the finalizer has been invoked exactly once.
C2_CycleCollectedOnce ==
    (Finished /\ py.gcPath = "graph" /\ self.g # 0)
        => (engine.released[self.g] = 1 /\ TotalInvoked = 1)

\* C3: igraph_destroy is never applied to a handle in which no native
\* structure was created.
C3_NoReleaseWithoutCreate == engine.bogus = 0

\* C4 as stated: in every deallocation the native structure is released
\* first, then the finalizer is invoked, and only then the cached views and
\* the weak-reference bookkeeping are released.
C4_NativeFinalizerThenViewsAndWeakrefs ==
    \A st \in Activations :
        /\ Precedes(st, "native", "finalizer")
        /\ Precedes(st, "finalizer", "views")
        /\ Precedes(st, "native", "views")
        /\ Precedes(st, "native", "weakrefs")
        /\ Precedes(st, "finalizer", "weakrefs")

\* C4 amended: in every deallocation the weak references are cleared
\* first, then the native structure is released, then the finalizer is
\* invoked, and only after that the cached views are released.
C4_WeakrefsNativeFinalizerViews ==
    \A st \in Activations :
        /\ Precedes(st, "weakrefs", "native")
        /\ Precedes(st, "native", "finalizer")
        /\ Precedes(st, "finalizer", "views")
        /\ Precedes(st, "native", "views")
        /\ st # <<>> => Pos(st, "native") # 0

C4_Witness ==
    /\ Finished
    /\ py.attempts = 1
    /\ py.done = <<"weakrefs", "native", "finalizer", "views", "free">>

\* C5: when a second finalization attempt is made for the handle, the
\* native structure is still released once and the finalizer callback is
\* still invoked once in total.
C5_OnceUnderConcurrentAttempts ==
    py.attempts >= 2
        => /\ \A i \in 1 .. engine.created : engine.released[i] <= 1
           /\ TotalInvoked <= 1

\* C6: a successful registration stores the new callback, returns the one
\* registered before (None when there was none) and invokes nothing; a
\* callback invoked at destroy is the most recently registered one.
C6_RegistrationReplaces ==
    [][/\ (lastOp'.op = "register" /\ lastOp'.res # "error")
            => /\ self'.destructor = lastOp'.arg
               /\ lastOp'.res = (IF self.destructor = NULL THEN "None"
                                 ELSE self.destructor)
               /\ py'.invoked = py.invoked
       /\ \A c \in Callables :
            py'.invoked[c] > py.invoked[c] => c = py.lastReg]_vars

C6_Witness ==
    /\ Finished
    /\ py.dropped # {}
    /\ py.lastReg \notin py.dropped
    /\ py.invoked[py.lastReg] = 1
    /\ \A c \in py.dropped : py.invoked[c] = 0

\* C7: registering a non-callable value fails and leaves the handle and
\* its registered finalizer as they were.
C7_NonCallableRejected ==
    [][(lastOp'.op = "register" /\ lastOp'.arg \in NonCallables)
          => (lastOp'.res = "error" /\ self' = self /\ py' = py)]_vars

C7_Witness ==
    /\ lastOp.op = "register"
    /\ lastOp.arg \in NonCallables
    /\ lastOp.res = "error"
    /\ self.destructor \in Callables

\* C8 as stated: traverse visits only the finalizer and the graph-scope
\* attribute store.
C8_OnlyFinalizerAndGraphAttrs ==
    Range(visited) \subseteq {"destructor", "attr_graph"}

\* C8 amended: traverse visits only the finalizer and the three attribute
\* stores (graph, vertex and edge scope); it never visits the cached views.
C8_OnlyFinalizerAndAttrStores ==
    /\ Range(visited) \subseteq ({"destructor"} \cup Range(AttrSlots))
    /\ Range(visited) \cap ViewSlots = {}

C8_Witness ==
    /\ lastOp.op = "traverse"
    /\ self.vseq # NULL
    /\ self.eseq # NULL
    /\ visited = <<"destructor", "attr_graph", "attr_vertex", "attr_edge">>

\* C9 as stated: in the state reached after tp_clear, traverse visits no
\* object and a second clear changes nothing.
C9_ClearDropsAllTraversed ==
    lastOp.op = "tp_clear"
        => /\ Graph_traverse(self, 0) = <<>>
           /\ Graph_clear(self) = self

\* C9 amended: in the state reached after tp_clear the finalizer and the
\* cached views are gone, traverse visits nothing but the attribute stores
\* (which clear leaves to the native structure), and a second clear
\* changes nothing.
C9_ClearDropsFinalizerAndViews ==
    lastOp.op = "tp_clear"
        => /\ self.destructor = NULL
           /\ self.vseq = NULL
           /\ self.eseq = NULL
           /\ Range(Graph_traverse(self, 0)) \subseteq Range(AttrSlots)
           /\ Graph_clear(self) = self

C9_Witness ==
    /\ lastOp.op = "tp_clear"
    /\ lastOp.arg \in Callables
    /\ self.attr = "set"
    /\ Graph_traverse(self, 0) = AttrSlots

Mutators == {"add_vertices", "delete_vertices", "add_edges", "delete_edges"}

C12_NegativeRejectedBeforeEngine ==
    (lastOp.op \in {"init", "add_vertices"} /\ lastOp.arg = "negative")
        => (lastOp.res = "error" /\ ~lastOp.eng)

\* C13: degree with one valid vertex index returns a single integer, degree
\* with the list holding that index returns a list of length one whose
\* element is that integer, and degree with None returns a list with one
\* entry per vertex.
C13_DegreeScalarAndSingleton ==
    (call.op = "degree" /\ call.ret # "NULL")
        => LET list == call.arg[1]
               asList == Graph_degree(graph, SelList(list.v), call.arg[2],
                                      call.arg[3], {})
               asInt == Graph_degree(graph, SelInt(list.v[1]), call.arg[2],
                                     call.arg[3], {})
           IN  /\ list.kind = "int"
                    => /\ call.ret = "scalar"
                       /\ call.val = DegreeOf(graph, list.v[1], call.arg[2],
                                              call.arg[3])
                       /\ asList.ret = "list"
                       /\ asList.val = <<call.val>>
               /\ (list.kind = "list" /\ Len(list.v) = 1)
                    => /\ call.ret = "list"
                       /\ asInt.ret = "scalar"
                       /\ call.val = <<asInt.val>>
               /\ list.kind = "None"
                    => /\ call.ret = "list"
                       /\ Len(call.val) = graph.vcount

C13_Witness ==
    /\ call.op = "degree"
    /\ call.arg[1].kind = "int"
    /\ call.ret = "scalar"
    /\ call.val > 0

SelectorQueries == {"degree", "betweenness", "bibcoupling", "shortest_paths",
                    "constraint"}

\* C14: a read query with a vertex selector returns a scalar for a scalar
\* index and, for a collection of k indices, a collection of exactly k
\* results.
C14_ReturnSingleHonored ==
    (call.op \in SelectorQueries /\ call.ret # "NULL")
        => /\ call.arg[1].kind = "int" => call.ret = "scalar"
           /\ call.arg[1].kind = "list"
                => /\ call.ret = "list"
                   /\ Len(call.val) = Len(call.arg[1].v)

NaryOperators == {"disjoint_union", "union", "intersection"}

\* The value of an n-ary operator of the receiver g with other.
NaryValue(op, g, other) ==
    IF op = "disjoint_union" THEN Graph_disjoint_union(g, other, {})
    ELSE IF op = "union" THEN Graph_union(g, other, {})
    ELSE Graph_intersection(g, other, {})

\* C15: disjoint_union, union and intersection with a list holding one
\* graph h give the graph they give with h itself: the receiver is one of
\* the operands in both forms.
C15_ListOfOneLikeSingleGraph ==
    (/\ call.op \in NaryOperators
     /\ call.ret = "graph"
     /\ call.arg[1].kind = "list"
     /\ Len(call.arg[1].gs) = 1)
        => LET single == NaryValue(call.op, graph,
                                   OtherGraph(call.arg[1].gs[1]))
           IN  /\ single.ret = "graph"
               /\ call.val = single.val

SetOperators == NaryOperators \cup {"difference", "compose"}

\* The host error indicator is set when the calls of events are over.
RECURSIVE ErrorPending(_)
ErrorPending(events) ==
    IF events = <<>> THEN FALSE
    ELSE LET e == events[Len(events)]
         IN  IF e.f = "PyErr_Clear" THEN FALSE
             ELSE IF e.f \in {SetString, Bridge} THEN TRUE
             ELSE IF ~e.ok /\ e.f \in HostCalls THEN TRUE
             ELSE ErrorPending(SubSeq(events, 1, Len(events) - 1))

\* C16: a set operator whose argument is neither an iterable nor a graph
\* fails with an error: the caller gets the failure indicator with an error
\* set, no native operator is called and no handle is allocated.
C16_TypeMismatchFails ==
    (call.op \in SetOperators /\ call.arg[1].kind = "int")
        => /\ call.ret = "NULL"
           /\ ErrorPending(call.events)
           /\ \A i \in 1 .. Len(call.events) :
                 call.events[i].f \notin NativeCalls \cup {"tp_alloc"}

\* Some call between the i-th and the j-th of events is the error bridge.
BridgeBetween(events, i, j) ==
    \E k \in i + 1 .. j - 1 : events[k].f = Bridge

\* C17: when a call into the native library fails, the error bridge runs
\* before any other native call, the destructors of vectors, matrices,
\* selectors and pointer vectors included.
C17_BridgeBeforeCleanup ==
    \A i \in 1 .. Len(call.events) :
       (call.events[i].f \in NativeCalls /\ ~call.events[i].ok)
          => \A j \in i + 1 .. Len(call.events) :
                call.events[j].f \in NativeCalls
                   => BridgeBetween(call.events, i, j)

FailureIndicators == {"NULL", "-1"}

\* C18: an operation that returns the failure indicator has a host error
\* set when it returns, and after a failed allocation of a buffer it makes
\* no call of an algorithm or constructor of the native engine.
C18_FailureHasErrorSet ==
    /\ call.ret \in FailureIndicators => ErrorPending(call.events)
    /\ \A i \in 1 .. Len(call.events) :
          (call.events[i].f \in {"igraph_vector_init", "igraph_matrix_init"}
           /\ ~call.events[i].ok)
             => \A j \in i + 1 .. Len(call.events) :
                   call.events[j].f \notin EngineCalls

\* The positions up to n at which buffer x is initialized with success,
\* and those at which it is destroyed.
InitsOf(events, x, n) ==
    {i \in 1 .. n : events[i].x = x /\ events[i].f \in BufferInits
                                  /\ events[i].ok}
DestroysOf(events, x, n) ==
    {i \in 1 .. n : events[i].x = x /\ events[i].f \in BufferDestroys}

\* C19: on every exit path, every transient buffer or selector that was
\* initialized has been destroyed exactly once, and nothing is destroyed
\* that is not initialized at that moment.
C19_BuffersDestroyedOnce ==
    LET ev == call.events
        n == Len(ev)
    IN  \A i \in 1 .. n :
           /\ (ev[i].f \in BufferInits /\ ev[i].ok)
                 => Cardinality(DestroysOf(ev, ev[i].x, n))
                       = Cardinality(InitsOf(ev, ev[i].x, n))
           /\ ev[i].f \in BufferDestroys
                 => Cardinality(InitsOf(ev, ev[i].x, i))
                       > Cardinality(DestroysOf(ev, ev[i].x, i - 1))

Generators == {"Atlas", "Lattice", "Preference", "Asymmetric_Preference"}

\* C20: when the native constructor called by a generator fails, the
\* handle allocated for the result is released before the generator
\* returns the error.
C20_ShellReleasedOnFailure ==
    call.op \in Generators
        => \A i \in 1 .. Len(call.events) :
              (call.events[i].f \in EngineCalls /\ ~call.events[i].ok)
                 => \E j \in i + 1 .. Len(call.events) :
                       call.events[j] = Ev("Py_DECREF", "self", TRUE)

\* The generators that grow a graph vertex by vertex with m edges each.
GrowthGenerators == {"Barabasi", "Recent_Degree"}

\* C21: when the m argument of Barabasi or Recent_Degree is neither an
\* integer nor a list, the call fails and makes no call into the native
\* library, so no buffer that was never initialized is handed to it.
C21_UnconvertedNeverReachesEngine ==
    (call.op \in GrowthGenerators /\ call.arg[2].kind = "None")
        => /\ call.ret = "NULL"
           /\ \A j \in 1 .. Len(call.events) :
                 call.events[j].f \notin NativeCalls

\* The view a scope caches and the accessor that reads it.
ViewOf(s, op) == IF op = "get_vertices" THEN s.vseq ELSE s.eseq

\* C22: per handle and scope the cache holds at most one view: an access
\* that finds the cache empty creates the view and caches the one it
\* returns, an access that finds a view returns that very view without
\* creating another, and no other operation than clearing or destroying
\* the handle changes what is cached, structural mutations included.
C22_OneCachedViewPerScope ==
    [][/\ \A op \in {"get_vertices", "get_edges"} :
            (lastOp'.op = op /\ lastOp' # lastOp)
                => IF ViewOf(self, op) # NULL
                   THEN /\ lastOp'.arg # "new"
                        /\ lastOp'.res = ViewOf(self, op)
                        /\ ViewOf(self', op) = ViewOf(self, op)
                   ELSE /\ lastOp'.arg = "new"
                        /\ ViewOf(self', op) \in {NULL, lastOp'.res}
       /\ lastOp'.op \notin {"get_vertices", "drop"}
            => self'.vseq = self.vseq
       /\ lastOp'.op \notin {"get_edges", "drop"}
            => self'.eseq = self.eseq]_vars

\* The vertex view is handed out a second time, after a mutation has
\* changed the graph it was created on.
C22_Witness ==
    /\ lastOp = Op("get_vertices", NULL, "vs", FALSE)
    /\ self.vseq = "vs"
    /\ self.eseq = "es"
    /\ Len(graph.edges) > 0

\* C23: a handle on which host code can invoke an operation has a native
\* structure that was successfully initialized, and its attribute store
\* with it; no handle is reachable between allocation and initialization.
C23_NoPartiallyInitializedHandle ==
    HostCanCall => (self.g # 0 /\ self.attr # NULL)

\* The keys of the graph scope under which a value is stored.
KeysPresent(a) == {k \in GKeys : a.dict[k] # NULL}

\* C24: the graph-scope attribute store is a key-value map: a successful
\* set of k to v makes v the value under k and touches no other key; get
\* returns the value under the key and fails with KeyError on an absent
\* key; delete removes a present key, so that a following get fails, and
\* fails with KeyError on an absent key, leaving the store as it was; the
\* attribute count is the number of keys present.
C24_GraphAttrsAreAMap ==
    [][/\ (lastOp'.op = "set_attribute" /\ lastOp'.res = "0")
            => attrs'.dict = [attrs.dict EXCEPT ![lastOp'.arg[1]] =
                                                   lastOp'.arg[2]]
       /\ (lastOp'.op = "set_attribute" /\ lastOp'.res # "0")
            => attrs' = attrs
       /\ lastOp'.op = "get_attribute"
            => /\ attrs'.dict = attrs.dict
               /\ lastOp'.res = IF lastOp'.arg \in KeysPresent(attrs)
                                THEN attrs.dict[lastOp'.arg] ELSE "KeyError"
       /\ lastOp'.op = "del_attribute"
            => IF lastOp'.arg \in KeysPresent(attrs)
               THEN /\ lastOp'.res = "0"
                    /\ attrs'.dict = [attrs.dict EXCEPT ![lastOp'.arg] = NULL]
               ELSE /\ lastOp'.res = "KeyError"
                    /\ attrs' = attrs
       /\ lastOp'.op = "attribute_count"
            => /\ lastOp'.res = Cardinality(KeysPresent(attrs))
               /\ attrs' = attrs]_vars

\* A key is deleted while the other one keeps its value.
C24_Witness ==
    /\ lastOp = Op("del_attribute", "name", "0", FALSE)
    /\ attrs.dict["name"] = NULL
    /\ attrs.dict["date"] = "y"

\* C30: the store holds exactly one reference to a value for every key it
\* is stored under: the count of every value is the host's own reference,
\* the results the host has not yet released, and one per key; deleting
\* the key or destroying the store gives the count before the set back.
C30_StoreOwnsOneReferencePerKey ==
    \A v \in GValues :
       attrs.rc[v] = 1 + attrs.held[v]
                       + Cardinality({k \in GKeys : attrs.dict[k] = v})

\* C25: mincut_value with a negative source and a vertex as target is the
\* minimum of the s-t minimum cuts over every vertex s different from the
\* target, the same with the roles exchanged, and the minimum cut of the
\* graph when both are negative, whatever the negative value is.
C25_NegativeMeansEveryVertex ==
    (call.op = "mincut_value" /\ call.arg[3] = {})
        => LET s == call.arg[1]
               t == call.arg[2]
               V == 0 .. graph.vcount - 1
           IN  /\ (s < 0 /\ t \in V /\ V # {t})
                    => /\ call.ret = "float"
                       /\ call.val =
                              SetMin({e_st_mincut_value(graph, x, t).value :
                                        x \in V \ {t}})
               /\ (t < 0 /\ s \in V /\ V # {s})
                    => /\ call.ret = "float"
                       /\ call.val =
                              SetMin({e_st_mincut_value(graph, s, x).value :
                                        x \in V \ {s}})
               /\ (s < 0 /\ t < 0)
                    => /\ call.ret = "float"
                       /\ call.val = e_mincut_value(graph).value

\* The queries that start from a root vertex.
RootQueries == {"bfs", "subcomponent"}

\* C26: bfs and subcomponent, once their arguments are parsed and the mode
\* is a valid one, hand exactly the roots in 0 .. vcount-1 to the native
\* engine; every other root fails without a call of the engine.
C26_RootRangeChecked ==
    (/\ call.op \in RootQueries
     /\ call.events[1].ok
     /\ call.arg[2] \in Modes)
        => LET engineCalled == \E j \in 1 .. Len(call.events) :
                                  call.events[j].f \in EngineCalls
           IN  IF call.arg[1] \in 0 .. graph.vcount - 1
               THEN engineCalled
               ELSE call.ret = "NULL" /\ ~engineCalled

\* How often the function f is called in events, with whatever outcome.
TimesCalled(events, f) ==
    Cardinality({j \in 1 .. Len(events) : events[j].f = f})

\* C27: a file reader or writer closes a file it has opened exactly once on
\* every exit path; when the file cannot be opened it closes nothing, makes
\* no native call and allocates no handle.
C27_FileClosedOnce ==
    call.op \in DOMAIN FileReaders \cup DOMAIN FileWriters
        => IF Ev("fopen", "f", TRUE) \in Range(call.events)
           THEN TimesCalled(call.events, "fclose") = 1
           ELSE \A j \in 1 .. Len(call.events) :
                   call.events[j].f \notin NativeCalls \cup {"fclose", "tp_alloc"}

\* A reader whose native reader fails on the opened file.
C27_Witness ==
    /\ call.op = "Read_Edgelist"
    /\ call.ret = "NULL"
    /\ Ev("fopen", "f", TRUE) \in Range(call.events)
    /\ Ev(FileReaders.Read_Edgelist, "g", FALSE) \in Range(call.events)

\* The operations that obtain a native result graph and then allocate the
\* handle that will own it.
ResultOwners == SetOperators \cup DOMAIN FileReaders \cup {"copy"}

\* C28: when the allocation of the handle fails after the native result
\* graph has been obtained, the native result is released exactly once,
\* nothing is written through the missing handle, and the call returns an
\* error.
C28_FailedHandleReleasesResult ==
    (/\ call.op \in ResultOwners
     /\ \E j \in 1 .. Len(call.events) :
           /\ call.events[j].f = "tp_alloc" /\ ~call.events[j].ok
           /\ \E i \in 1 .. j - 1 :
                 call.events[i].f \in EngineCalls /\ call.events[i].ok)
        => /\ call.ret = "NULL"
           /\ TimesCalled(call.events, "igraph_destroy") = 1
           /\ \A j \in 1 .. Len(call.events) : call.events[j].x # "NULL"

\* The native structure of the handle has been handed to igraph_destroy.
NativeReleased == self.g # 0 /\ engine.released[self.g] > 0

\* C29: no host operation can run on a handle whose native structure has
\* been released; in particular, while the destructor callback runs inside
\* the deallocation, the callback cannot reach the handle with its native
\* structure released and its methods still callable.
C29_NoCallAfterRelease ==
    (self.alloc = "live" /\ NativeReleased)
        => /\ ~HostCanCall
           /\ ~(py.frames # <<>> /\ self.tracked)

====
